---- MODULE Spec2Model ----
(***************************************************************************)
(* Companion updates API: the usage aggregator (surface and connection     *)
(* daily / all-time max counts) and the version advisor with its release   *)
(* snapshot.                                                               *)
(*                                                                         *)
(* Strings are sequences of one-character strings, so that slice, indexOf  *)
(* and includes are computed as JavaScript computes them.  Store tables    *)
(* are functions from their unique key to the stored columns.              *)
(***************************************************************************)
EXTENDS Integers, Sequences, FiniteSets, TLC

VARIABLES
  surfaceDailyUsage,    \* <<date, user_id, module_name>> -> max_count
  surfaceUserLastSeen,  \* <<user_id, module_name, surface_serial>> -> row
  knownModule,          \* <<module_name, module_version>> -> id (CONNECTION)
  moduleDailyUsage,     \* <<date, user_id, module_id>> -> max_count
  moduleUserLastSeen,   \* <<user_id, module_id>> -> [max_count, last_seen]
  companionFeatures,    \* user_id -> the document of the user's features
  now,                  \* the wall clock (Date.now), in ticks
  pc,                   \* per request: position of each of its branches
  req,                  \* per request: machineId, surfaces, connections
  daily,                \* per request: locals of writeSurfacesDailyUsage
  lastSeen,             \* per request: locals of writeSurfacesLastSeen
  conn,                 \* per request: locals of writeConnectionsUsage
  features,             \* per request: locals of writeFeatureUsageData
  faults,               \* the steps that met a failing store call, so far
  pre,                  \* per request: the store as it was when it was submitted
  dbCalls,              \* per request: store calls issued so far
  submissions,          \* number of requests submitted so far
  latestReleases,       \* the release snapshot, or null
  fetching,             \* the refresh runs that await the registry's answer
  refreshes,            \* number of refresh runs started so far
  userTable,            \* table user, by (user_id, app_name)
  request,              \* the last version check: installation, application, build
  response              \* the answer to it, with the snapshot it was made from

store == <<surfaceDailyUsage, surfaceUserLastSeen, knownModule,
           moduleDailyUsage, moduleUserLastSeen, companionFeatures>>
locals == <<pc, req, daily, lastSeen, conn, features, pre, dbCalls, submissions,
            faults>>
advisor == <<latestReleases, fetching, refreshes, userTable, request, response>>
vars == <<store, now, locals, advisor>>

-----------------------------------------------------------------------------
(* Bounds of the model *)

MaxSurfaces == 3
MaxCount == 3
MaxSubmissions == 2
MaxFaults == 1
MaxTime == 2
TicksPerDay == 2
MaxRefreshes == 2
MaxMinor == 2
MaxPatch == 1

Procs == {1, 2}
Users == {"u1"}

-----------------------------------------------------------------------------
(* JavaScript values *)

Max(a, b) == IF a >= b THEN a ELSE b

Rep(c, n) == [i \in 1..n |-> c]

\* String.prototype.slice(a, b) for 0 <= a <= b
slice(s, a, b) == SubSeq(s, a + 1, IF b <= Len(s) THEN b ELSE Len(s))

\* String.prototype.indexOf(c) for a one-character needle; -1 when absent
indexOf(s, c) ==
  IF \E i \in 1..Len(s) : s[i] = c
  THEN (CHOOSE i \in 1..Len(s) : s[i] = c /\ \A j \in 1..(i - 1) : s[j] # c) - 1
  ELSE -1

\* String.prototype.includes(needle)
includes(s, needle) ==
  \E i \in 0..(Len(s) - Len(needle)) : SubSeq(s, i + 1, i + Len(needle)) = needle

\* null, as a value distinct from every string
NULL == <<"<null>">>
Truthy(s) == s # NULL /\ s # <<>>

\* Map.get(k) ?? d
MapGet(m, k, d) == IF k \in DOMAIN m THEN m[k] ELSE d

EmptyTable == [k \in {} |-> 0]

\* the table cleared before the row is written
UpsertAlone(table, key, row) == [k \in {key} |-> row]

\* prisma.<table>.upsert on the table's unique key
Upsert(table, key, row) ==
  [k \in DOMAIN table \cup {key} |-> IF k = key THEN row ELSE table[k]]

\* midnight UTC of the day of t
UtcDay(t) == (t \div TicksPerDay) * TicksPerDay

\* crypto.createHash("md5").update(s).digest("hex"): an injective digest that
\* holds no ':' (a hex digest never does)
md5(s) == <<"#">> \o [i \in 1..Len(s) |-> IF s[i] = ":" THEN ";" ELSE s[i]]

-----------------------------------------------------------------------------
(* write-surfaces-usage *)

ModuleNameMax == 128
SerialMax == 64
DescriptionMax == 128

DescriptionTable ==
    <<"S","t","r","e","a","m"," ","D","e","c","k">> :> <<"E","l","g","a","t","o"," ","S","t","r","e","a","m"," ","D","e","c","k">> @@
    <<"S","a","t","e","l","l","i","t","e"," ","S","t","r","e","a","m","D","e","c","k",":"," ","o","r","i","g","i","n","a","l">> :> <<"E","l","g","a","t","o"," ","S","t","r","e","a","m"," ","D","e","c","k">> @@
    <<"S","a","t","e","l","l","i","t","e"," ","S","t","r","e","a","m","D","e","c","k",":"," ","o","r","i","g","i","n","a","l","v","2">> :> <<"E","l","g","a","t","o"," ","S","t","r","e","a","m"," ","D","e","c","k">> @@
    <<"S","t","r","e","a","m"," ","D","e","c","k"," ","X","L">> :> <<"E","l","g","a","t","o"," ","S","t","r","e","a","m"," ","D","e","c","k"," ","X","L">> @@
    <<"S","a","t","e","l","l","i","t","e"," ","S","t","r","e","a","m","D","e","c","k",":"," ","x","l">> :> <<"E","l","g","a","t","o"," ","S","t","r","e","a","m"," ","D","e","c","k"," ","X","L">> @@
    <<"S","a","t","e","l","l","i","t","e"," ","S","t","r","e","a","m","D","e","c","k",":"," ","x","l","v","2">> :> <<"E","l","g","a","t","o"," ","S","t","r","e","a","m"," ","D","e","c","k"," ","X","L">> @@
    <<"S","t","r","e","a","m"," ","D","e","c","k"," ","M","i","n","i">> :> <<"E","l","g","a","t","o"," ","S","t","r","e","a","m"," ","D","e","c","k"," ","M","i","n","i">> @@
    <<"S","a","t","e","l","l","i","t","e"," ","S","t","r","e","a","m","D","e","c","k",":"," ","m","i","n","i">> :> <<"E","l","g","a","t","o"," ","S","t","r","e","a","m"," ","D","e","c","k"," ","M","i","n","i">> @@
    <<"S","a","t","e","l","l","i","t","e"," ","S","t","r","e","a","m","D","e","c","k",":"," ","m","i","n","i","v","2">> :> <<"E","l","g","a","t","o"," ","S","t","r","e","a","m"," ","D","e","c","k"," ","M","i","n","i">> @@
    <<"S","t","r","e","a","m"," ","D","e","c","k"," ","M","K",".","2">> :> <<"E","l","g","a","t","o"," ","S","t","r","e","a","m"," ","D","e","c","k"," ","M","K",".","2">> @@
    <<"S","a","t","e","l","l","i","t","e"," ","S","t","r","e","a","m","D","e","c","k",":"," ","o","r","i","g","i","n","a","l","-","m","k","2">> :> <<"E","l","g","a","t","o"," ","S","t","r","e","a","m"," ","D","e","c","k"," ","M","K",".","2">> @@
    <<"S","t","r","e","a","m"," ","D","e","c","k"," ","+">> :> <<"E","l","g","a","t","o"," ","S","t","r","e","a","m"," ","D","e","c","k"," ","+">> @@
    <<"S","a","t","e","l","l","i","t","e"," ","S","t","r","e","a","m","D","e","c","k",":"," ","p","l","u","s">> :> <<"E","l","g","a","t","o"," ","S","t","r","e","a","m"," ","D","e","c","k"," ","+">> @@
    <<"E","l","g","a","t","o"," ","S","t","r","e","a","m"," ","D","e","c","k"," ","P","l","u","s">> :> <<"E","l","g","a","t","o"," ","S","t","r","e","a","m"," ","D","e","c","k"," ","+">> @@
    <<"S","t","r","e","a","m"," ","D","e","c","k"," ","P","e","d","a","l">> :> <<"E","l","g","a","t","o"," ","S","t","r","e","a","m"," ","D","e","c","k"," ","P","e","d","a","l">> @@
    <<"S","a","t","e","l","l","i","t","e"," ","S","t","r","e","a","m","D","e","c","k",":"," ","p","e","d","a","l">> :> <<"E","l","g","a","t","o"," ","S","t","r","e","a","m"," ","D","e","c","k"," ","P","e","d","a","l">> @@
    <<"S","t","r","e","a","m"," ","D","e","c","k"," ","N","e","o">> :> <<"E","l","g","a","t","o"," ","S","t","r","e","a","m"," ","D","e","c","k"," ","N","e","o">> @@
    <<"S","a","t","e","l","l","i","t","e"," ","S","t","r","e","a","m","D","e","c","k",":"," ","n","e","o">> :> <<"E","l","g","a","t","o"," ","S","t","r","e","a","m"," ","D","e","c","k"," ","N","e","o">> @@
    <<"S","t","r","e","a","m"," ","D","e","c","k"," ","1","5"," ","M","o","d","u","l","e">> :> <<"E","l","g","a","t","o"," ","S","t","r","e","a","m"," ","D","e","c","k"," ","1","5"," ","M","o","d","u","l","e">> @@
    <<"S","t","r","e","a","m"," ","D","e","c","k"," ","3","2"," ","M","o","d","u","l","e">> :> <<"E","l","g","a","t","o"," ","S","t","r","e","a","m"," ","D","e","c","k"," ","3","2"," ","M","o","d","u","l","e">> @@
    <<"S","t","r","e","a","m"," ","D","e","c","k"," ","6"," ","M","o","d","u","l","e">> :> <<"E","l","g","a","t","o"," ","S","t","r","e","a","m"," ","D","e","c","k"," ","6"," ","M","o","d","u","l","e">> @@
    <<"S","t","r","e","a","m"," ","D","e","c","k"," ","M","K",".","2"," ","(","S","c","i","s","s","o","r",")">> :> <<"E","l","g","a","t","o"," ","S","t","r","e","a","m"," ","D","e","c","k"," ","M","K",".","2"," ","(","S","c","i","s","s","o","r",")">> @@
    <<"S","t","r","e","a","m"," ","D","e","c","k"," ","S","t","u","d","i","o">> :> <<"E","l","g","a","t","o"," ","S","t","r","e","a","m"," ","D","e","c","k"," ","S","t","u","d","i","o">>

MakeProXGlue == <<"M","a","k","e","P","r","o"," ","X"," ","G","l","u","e">>

translateDescription(description) ==
  IF description \in DOMAIN DescriptionTable THEN DescriptionTable[description]
  ELSE IF includes(description, MakeProXGlue) THEN MakeProXGlue
  ELSE description

\* moduleCounts.set(moduleId, (moduleCounts.get(moduleId) ?? 0) + 1); a Map
\* keeps its keys in order of first insertion
CountSurface(moduleCounts, moduleId) ==
  IF \E i \in 1..Len(moduleCounts) : moduleCounts[i][1] = moduleId
  THEN [i \in 1..Len(moduleCounts) |->
          IF moduleCounts[i][1] = moduleId
          THEN <<moduleId, moduleCounts[i][2] + 1>>
          ELSE moduleCounts[i]]
  ELSE Append(moduleCounts, <<moduleId, 1>>)

RECURSIVE BuildModuleCounts(_, _)
BuildModuleCounts(moduleCounts, surfaces) ==
  IF surfaces = <<>> THEN moduleCounts
  ELSE BuildModuleCounts(CountSurface(moduleCounts, Head(surfaces).moduleId),
                         Tail(surfaces))

\* surfaceDailyUsage.findMany({date, user_id}) as the Map module_name -> max_count
ExistingSurfaceCounts(table, utcDay, machineId) ==
  [n \in {k[3] : k \in {x \in DOMAIN table : x[1] = utcDay /\ x[2] = machineId}}
     |-> table[<<utcDay, machineId, n>>]]

\* the count of the submission added to the stored count
SurfaceNewMaxAdded(existingCount, count) == existingCount + count

SurfaceNewMax(existingCount, count) == Max(existingCount, count)

\* the body of the daily transaction: one upsert per entry of moduleCounts
RECURSIVE DailyUpserts(_, _, _, _, _)
DailyUpserts(table, moduleCounts, existingCounts, utcDay, machineId) ==
  IF moduleCounts = <<>> THEN table
  ELSE LET moduleName == Head(moduleCounts)[1]
           count == Head(moduleCounts)[2]
           existingCount == MapGet(existingCounts, moduleName, 0)
           newMax == SurfaceNewMax(existingCount, count)
           safeModuleName == slice(moduleName, 0, ModuleNameMax)
       IN DailyUpserts(Upsert(table, <<utcDay, machineId, safeModuleName>>, newMax),
                       Tail(moduleCounts), existingCounts, utcDay, machineId)

\* the legacy hash forms of one raw serial
OldSerials(id) ==
  LET colonIndex == indexOf(id, ":")
      suffix == slice(id, colonIndex + 1, Len(id))
  IN {md5(id)} \cup
     (IF colonIndex # -1
      THEN {md5(suffix), md5(<<"s","a","t","e","l","l","i","t","e","-">> \o suffix)}
      ELSE {})

RECURSIVE OldSerialsToPrune(_)
OldSerialsToPrune(surfaces) ==
  IF surfaces = <<>> THEN {}
  ELSE OldSerials(Head(surfaces).id) \cup OldSerialsToPrune(Tail(surfaces))

RECURSIVE LastSeenUpserts(_, _, _, _)
LastSeenUpserts(table, surfaces, machineId, t) ==
  IF surfaces = <<>> THEN table
  ELSE LET surface == Head(surfaces)
           safeModuleName == slice(surface.moduleId, 0, ModuleNameMax)
           safeSerial == slice(surface.id, 0, SerialMax)
           safeDescription ==
             slice(translateDescription(surface.description), 0, DescriptionMax)
       IN LastSeenUpserts(
            Upsert(table, <<machineId, safeModuleName, safeSerial>>,
                   [surface_description |-> safeDescription, last_seen |-> t]),
            Tail(surfaces), machineId, t)

\* deleteMany without the user_id of its where clause
DeleteSerialsOfAll(table, machineId, serials) ==
  [k \in {x \in DOMAIN table : x[3] \notin serials} |-> table[k]]

\* surfaceUserLastSeen.deleteMany({user_id, surface_serial: {in: serialsArr}})
DeleteSerials(table, machineId, serials) ==
  [k \in {x \in DOMAIN table : ~(x[1] = machineId /\ x[3] \in serials)} |-> table[k]]

-----------------------------------------------------------------------------
(* write-connections-usage *)

ConnModuleNameMax == 128
VersionMax == 32

\* moduleDailyUsage.findMany({date, user_id}) as the Map module_id -> max_count
ExistingDailyRowCounts(table, utcDay, machineId) ==
  [id \in {k[3] : k \in {x \in DOMAIN table : x[1] = utcDay /\ x[2] = machineId}}
     |-> table[<<utcDay, machineId, id>>]]

\* moduleUserLastSeen.findMany({user_id}) as the Map module_id -> max_count
ExistingLastSeenRowCounts(table, machineId) ==
  [id \in {k[2] : k \in {x \in DOMAIN table : x[1] = machineId}}
     |-> table[<<machineId, id>>].max_count]

\* the Map (module_version || null) -> id of the rows of one module name
findModuleRowIds(table, moduleName) ==
  LET rows == {k \in DOMAIN table : k[1] = moduleName}
      versionOrNull(k) == IF Truthy(k[2]) THEN k[2] ELSE NULL
  IN [v \in {versionOrNull(k) : k \in rows} |->
        table[CHOOSE k \in rows : versionOrNull(k) = v]]

\* knownModule.create: a new row id on every call
createConnectionModuleInsert(table, moduleName, moduleVersion) ==
  LET key == <<moduleName, IF Truthy(moduleVersion) THEN moduleVersion ELSE <<>>>>
  IN [table |-> Upsert(table, key, Cardinality(DOMAIN table) + 1),
      id |-> Cardinality(DOMAIN table) + 1, created |-> TRUE]

\* knownModule.upsert with an empty update: the row's id, created when absent
createConnectionModule(table, moduleName, moduleVersion) ==
  LET key == <<moduleName, IF Truthy(moduleVersion) THEN moduleVersion ELSE <<>>>>
  IN IF key \in DOMAIN table
     THEN [table |-> table, id |-> table[key], created |-> FALSE]
     ELSE [table |-> Upsert(table, key, Cardinality(DOMAIN table) + 1),
           id |-> Cardinality(DOMAIN table) + 1, created |-> TRUE]

\* getOrCreateModuleRowId over st = the store tables and the moduleRowIds cache
getOrCreateModuleRowId(st, moduleName, version0) ==
  LET version == IF Truthy(version0) THEN slice(version0, 0, VersionMax) ELSE NULL
  IN IF version \in DOMAIN st.moduleRowIds
     THEN [st |-> st, rowId |-> st.moduleRowIds[version]]
     ELSE LET c == createConnectionModule(st.knownModule, moduleName, version)
          IN [st |-> [st EXCEPT !.knownModule = c.table,
                                !.moduleRowIds = Upsert(@, version, c.id),
                                !.calls = @ + 1],
              rowId |-> c.id]

\* let totalInstances = 0; for (cnt of Object.values(counts)) if (cnt) ...
RECURSIVE TotalInstances(_)
TotalInstances(counts) ==
  IF counts = <<>> THEN 0
  ELSE (IF Head(counts).cnt # 0 THEN Head(counts).cnt ELSE 0)
       + TotalInstances(Tail(counts))

ConnNewDailyMax(existingCount, instanceCount) == Max(existingCount, instanceCount)
ConnNewLastSeenMax(existingCount, instanceCount) == Max(existingCount, instanceCount)

updateConnectionModuleCounts(st, common, moduleRowId, instanceCount) ==
  LET newDailyMax ==
        ConnNewDailyMax(MapGet(common.existingDailyRowCounts, moduleRowId, 0),
                        instanceCount)
      newLastSeenMax ==
        ConnNewLastSeenMax(MapGet(common.existingLastSeenRowCounts, moduleRowId, 0),
                           instanceCount)
  IN [st EXCEPT
        !.moduleDailyUsage =
           Upsert(@, <<common.utcDay, common.machineId, moduleRowId>>, newDailyMax),
        !.moduleUserLastSeen =
           Upsert(@, <<common.machineId, moduleRowId>>,
                  [max_count |-> newLastSeenMax, last_seen |-> common.now]),
        !.calls = @ + 2]

\* for (const [ver, cnt] of Object.entries(conn.counts)) { getOrCreate; update }
RECURSIVE VersionUpdates(_, _, _, _)
VersionUpdates(st, common, moduleName, counts) ==
  IF counts = <<>> THEN st
  ELSE LET g == getOrCreateModuleRowId(st, moduleName, Head(counts).ver)
       IN VersionUpdates(
            updateConnectionModuleCounts(g.st, common, g.rowId, Head(counts).cnt),
            common, moduleName, Tail(counts))

\* the transaction of one connection record: the sum row, then every version
ConnectionTransaction(st, common, moduleName, sumModuleRowId, counts) ==
  VersionUpdates(
    updateConnectionModuleCounts(st, common, sumModuleRowId, TotalInstances(counts)),
    common, moduleName, counts)

-----------------------------------------------------------------------------
(* The usage reports submitted in the model *)

ModA == <<"a">>
\* a module id one character longer than the column
LongA == Rep("m", ModuleNameMax) \o <<"1">>

StreamDeck == <<"S","t","r","e","a","m"," ","D","e","c","k">>
Unknown == <<"U","n","k","n","o","w","n">>

Surface(m, serial, d) == [moduleId |-> m, id |-> serial, description |-> d]

\* n surfaces of module m, with serials s1 .. sn
SurfacesOf(m, n) ==
  [i \in 1..n |-> Surface(m, <<"s", <<"1", "2", "3", "4", "5", "6", "7", "8", "9">>[i]>>, StreamDeck)]

SurfaceLists ==
  {SurfacesOf(m, n) : m \in {ModA, LongA}, n \in 0..MaxSurfaces}
  \* two module ids that share their first 128 characters
  \cup {SurfacesOf(LongA, 2) \o SurfacesOf(Rep("m", ModuleNameMax) \o <<"2">>, 1)}
  \cup {<<Surface(<<"l","e","g","a","c","y">>, md5(<<"s","1">>), Unknown)>>,
        <<Surface(ModA, <<"p",":","s","1">>, StreamDeck)>>,
        \* a serial reported together with its own legacy hash form
        <<Surface(ModA, <<"s","1">>, StreamDeck),
          Surface(<<"l","e","g","a","c","y">>, md5(<<"s","1">>), Unknown)>>}

V1 == <<"1",".","0">>

ModX == <<"x">>

VC(v, c) == [ver |-> v, cnt |-> c]
Conn(m, counts) == [moduleId |-> m, counts |-> counts]

ConnLists ==
  {<<>>}
  \cup {<<Conn(ModX, <<VC(V1, c)>>)>> : c \in 1..MaxCount}
  \cup {<<Conn(ModX, <<VC(V1, MaxCount), VC(<<"2",".","0">>, 1)>>)>>,
        <<Conn(ModX, <<VC(V1, 2), VC(<<>>, 1)>>)>>,
        \* two versions that share their first 32 characters
        <<Conn(ModX, <<VC(Rep("9", VersionMax) \o <<"a">>, 2),
                       VC(Rep("9", VersionMax) \o <<"b">>, 1)>>)>>,
        <<Conn(ModX, <<VC(V1, MaxCount)>>), Conn(ModX, <<VC(V1, 1)>>)>>,
        <<Conn(ModX, <<VC(V1, 1)>>), Conn(<<"y">>, <<VC(V1, 2)>>)>>}

\* an argument that may be missing (undefined)
Defined(list) == [defined |-> TRUE, items |-> list]
Undefined == [defined |-> FALSE, items |-> <<>>]

Report(u, s, c) == [id |-> u, surfaces |-> s, connections |-> c]

\* reports with one of the two lists empty, two with both filled, one with
\* both missing
Reports ==
  {Report(u, Defined(s), Defined(<<>>)) : u \in Users, s \in SurfaceLists}
  \cup {Report(u, Defined(<<>>), Defined(c)) : u \in Users, c \in ConnLists}
  \cup {Report(u, Defined(SurfacesOf(ModA, n)), Defined(<<Conn(ModX, <<VC(V1, n)>>)>>))
          : u \in Users, n \in 1..2}
  \cup {Report(u, Undefined, Undefined) : u \in Users}

-----------------------------------------------------------------------------
(* The requests *)

NoCalls == [surfaces |-> 0, connections |-> 0]
NoReport == Report("", Undefined, Undefined)
\* failed: the records (by index) whose store call failed; committed: whether
\* the transaction's writes were kept. Of the connections, <<i, j>> is version
\* j of record i, <<i, -1>> its all-versions row, <<i, 0>> the record as a whole
\* and <<i, -2>> its transaction.
NoDaily == [utcDay |-> 0, existingCounts |-> EmptyTable, moduleCounts |-> <<>>,
            ok |-> TRUE, failed |-> {}, committed |-> TRUE]
NoLastSeen == [now |-> 0, ok |-> TRUE, failed |-> {}, pruneFailed |-> FALSE,
               committed |-> TRUE]
NoFeatures == [doc |-> 0, ok |-> TRUE, failed |-> FALSE]
NoConn == [now |-> 0, utcDay |-> 0,
           existingDailyRowCounts |-> EmptyTable,
           existingLastSeenRowCounts |-> EmptyTable,
           i |-> 0, moduleRowIds |-> EmptyTable, sumModuleRowId |-> 0,
           ok |-> TRUE, failed |-> {}, rejected |-> FALSE]

Idle(p) ==
  /\ pc[p].daily = "idle" /\ pc[p].lastSeen = "idle" /\ pc[p].conn = "idle"
  /\ pc[p].features = "idle"
Done(p) ==
  /\ pc[p].daily = "done" /\ pc[p].lastSeen = "done" /\ pc[p].conn = "done"
  /\ pc[p].features = "done"

\* The store, with what the claims need to know of the request's start: the
\* report and UTC day of the request before it in the same slot, its number,
\* and whether no other request was in progress.
Snapshot(p) ==
  [prev |-> req[p],
   prevDay |-> daily[p].utcDay,
   seq |-> submissions + 1,
   quiet |-> \A q \in Procs \ {p} : Idle(q) \/ Done(q),
   surfaceDailyUsage |-> surfaceDailyUsage,
   surfaceUserLastSeen |-> surfaceUserLastSeen,
   knownModule |-> knownModule,
   moduleDailyUsage |-> moduleDailyUsage,
   moduleUserLastSeen |-> moduleUserLastSeen]

\* let latestReleases: LatestReleases | null = null
NoVersion == [major |-> 0, minor |-> 0, patch |-> 0, prerelease |-> <<>>, build |-> <<>>]
NoReleases == [available |-> FALSE, currentStable |-> NoVersion, oldStable |-> NoVersion]
NoLink == "<undefined>"

NoSnapshot ==
  [prev |-> NoReport, prevDay |-> 0, seq |-> 0, quiet |-> TRUE,
   surfaceDailyUsage |-> EmptyTable,
   surfaceUserLastSeen |-> EmptyTable,
   knownModule |-> EmptyTable,
   moduleDailyUsage |-> EmptyTable,
   moduleUserLastSeen |-> EmptyTable]

Init ==
  /\ surfaceDailyUsage = EmptyTable
  /\ surfaceUserLastSeen = EmptyTable
  /\ knownModule = EmptyTable
  /\ moduleDailyUsage = EmptyTable
  /\ moduleUserLastSeen = EmptyTable
  /\ companionFeatures = EmptyTable
  /\ now = 0
  /\ pc = [p \in Procs |-> [daily |-> "idle", lastSeen |-> "idle", conn |-> "idle",
                           features |-> "idle"]]
  /\ req = [p \in Procs |-> NoReport]
  /\ daily = [p \in Procs |-> NoDaily]
  /\ lastSeen = [p \in Procs |-> NoLastSeen]
  /\ conn = [p \in Procs |-> NoConn]
  /\ features = [p \in Procs |-> NoFeatures]
  /\ pre = [p \in Procs |-> NoSnapshot]
  /\ dbCalls = [p \in Procs |-> NoCalls]
  /\ submissions = 0
  /\ faults = 0
  /\ latestReleases = NoReleases
  /\ fetching = {}
  /\ refreshes = 0
  /\ userTable = EmptyTable
  /\ request = [id |-> "", name |-> "", build |-> <<>>]
  /\ response = [ok |-> TRUE, message |-> <<>>, link |-> NoLink, latestReleases |-> NoReleases]

\* the flag the handler returns: the conjunction of its branches' outcomes
Accepted(p) == features[p].ok /\ daily[p].ok /\ lastSeen[p].ok /\ conn[p].ok

\* the guard without its length test
NothingToDoUnlessMissing(arg) == ~arg.defined

\* if (!list || list.length === 0) return true
NothingToDo(arg) == ~arg.defined \/ Len(arg.items) = 0

\* The handler is entered: the writers are called, and each runs up to its
\* first store call. featuresAt and f are the position and locals of
\* writeFeatureUsageData.
Handler(p, r, featuresAt, f) ==
  /\ Idle(p) \/ Done(p)
  /\ submissions < MaxSubmissions
  /\ submissions' = submissions + 1
  /\ req' = [req EXCEPT ![p] = r]
  /\ pre' = [pre EXCEPT ![p] = Snapshot(p)]
  /\ dbCalls' = [dbCalls EXCEPT ![p] = NoCalls]
  /\ pc' = [pc EXCEPT ![p] =
              [daily |-> IF NothingToDo(r.surfaces) THEN "done" ELSE "findMany",
               lastSeen |-> IF NothingToDo(r.surfaces) THEN "done" ELSE "transaction",
               conn |-> IF NothingToDo(r.connections) THEN "done" ELSE "findMany",
               features |-> featuresAt]]
  /\ daily' = [daily EXCEPT ![p] = [NoDaily EXCEPT !.utcDay = UtcDay(now)]]
  /\ lastSeen' = [lastSeen EXCEPT ![p] = [NoLastSeen EXCEPT !.now = now]]
  /\ conn' = [conn EXCEPT ![p] = [NoConn EXCEPT !.now = now, !.utcDay = UtcDay(now)]]
  /\ features' = [features EXCEPT ![p] = f]
  /\ UNCHANGED <<advisor, faults, store, now>>

\* the handler of the old metrics route: writeSurfacesUsage and
\* writeConnectionsUsage, no features
Submit(p, r) == Handler(p, r, "done", NoFeatures)

\* writeSurfacesDailyUsage: the findMany of the day's rows
DailyFindMany(p) ==
  /\ pc[p].daily = "findMany"
  /\ daily' = [daily EXCEPT ![p] =
       [@ EXCEPT !.existingCounts =
                   ExistingSurfaceCounts(surfaceDailyUsage, daily[p].utcDay, req[p].id),
                 !.moduleCounts = BuildModuleCounts(<<>>, req[p].surfaces.items)]]
  /\ pc' = [pc EXCEPT ![p].daily = "transaction"]
  /\ dbCalls' = [dbCalls EXCEPT ![p].surfaces = @ + 1]
  /\ UNCHANGED <<advisor, faults, features, store, now, req, lastSeen, conn, pre,
                 submissions>>

\* writeSurfacesDailyUsage: the transaction, committed
DailyTransaction(p) ==
  /\ pc[p].daily = "transaction"
  /\ surfaceDailyUsage' =
       DailyUpserts(surfaceDailyUsage, daily[p].moduleCounts,
                    daily[p].existingCounts, daily[p].utcDay, req[p].id)
  /\ pc' = [pc EXCEPT ![p].daily = "done"]
  /\ dbCalls' = [dbCalls EXCEPT ![p].surfaces = @ + 1 + Len(daily[p].moduleCounts)]
  /\ UNCHANGED <<advisor, faults, companionFeatures, features, surfaceUserLastSeen,
                 knownModule, moduleDailyUsage, moduleUserLastSeen, now, req, daily,
                 lastSeen, conn, pre, submissions>>

\* writeSurfacesLastSeen: the transaction (the upserts, then the pruning), committed
LastSeenTransaction(p) ==
  /\ pc[p].lastSeen = "transaction"
  /\ LET surfaces == req[p].surfaces.items
         oldSerialsToPrune == OldSerialsToPrune(surfaces)
         written == LastSeenUpserts(surfaceUserLastSeen, surfaces, req[p].id,
                                    lastSeen[p].now)
     IN /\ surfaceUserLastSeen' =
             IF Cardinality(oldSerialsToPrune) > 0
             THEN DeleteSerials(written, req[p].id, oldSerialsToPrune)
             ELSE written
        /\ dbCalls' = [dbCalls EXCEPT ![p].surfaces =
             @ + 1 + Len(surfaces)
               + (IF Cardinality(oldSerialsToPrune) > 0 THEN 1 ELSE 0)]
  /\ pc' = [pc EXCEPT ![p].lastSeen = "done"]
  /\ UNCHANGED <<advisor, faults, companionFeatures, features, surfaceDailyUsage,
                 knownModule, moduleDailyUsage, moduleUserLastSeen, now, req, daily,
                 lastSeen, conn, pre, submissions>>

\* for (const conn of connections): nothing to iterate ends the function
LoopEntry(p) ==
  IF Len(req[p].connections.items) = 0 THEN "done" ELSE "findModuleRowIds"

\* writeConnectionsUsage: the two findMany of Promise.all, in either order
ConnFindDaily(p) ==
  /\ pc[p].conn \in {"findMany", "findDaily"}
  /\ conn' = [conn EXCEPT ![p] =
       [@ EXCEPT !.existingDailyRowCounts =
                   ExistingDailyRowCounts(moduleDailyUsage, conn[p].utcDay, req[p].id),
                 !.i = IF pc[p].conn = "findDaily" THEN 1 ELSE @]]
  /\ pc' = [pc EXCEPT ![p].conn =
              IF pc[p].conn = "findMany" THEN "findLastSeen" ELSE LoopEntry(p)]
  /\ dbCalls' = [dbCalls EXCEPT ![p].connections = @ + 1]
  /\ UNCHANGED <<advisor, faults, features, store, now, req, daily, lastSeen, pre,
                 submissions>>

ConnFindLastSeen(p) ==
  /\ pc[p].conn \in {"findMany", "findLastSeen"}
  /\ conn' = [conn EXCEPT ![p] =
       [@ EXCEPT !.existingLastSeenRowCounts =
                   ExistingLastSeenRowCounts(moduleUserLastSeen, req[p].id),
                 !.i = IF pc[p].conn = "findLastSeen" THEN 1 ELSE @]]
  /\ pc' = [pc EXCEPT ![p].conn =
              IF pc[p].conn = "findMany" THEN "findDaily" ELSE LoopEntry(p)]
  /\ dbCalls' = [dbCalls EXCEPT ![p].connections = @ + 1]
  /\ UNCHANGED <<advisor, faults, features, store, now, req, daily, lastSeen, pre,
                 submissions>>

\* the record of the loop `for (const conn of connections)` being processed
CurrentConn(p) == req[p].connections.items[conn[p].i]
CurrentModuleName(p) == slice(CurrentConn(p).moduleId, 0, ConnModuleNameMax)

\* findModuleRowIds; a cached sum row needs no store call before the transaction
ConnFindModuleRowIds(p) ==
  /\ pc[p].conn = "findModuleRowIds"
  /\ LET moduleRowIds == findModuleRowIds(knownModule, CurrentModuleName(p))
     IN /\ conn' = [conn EXCEPT ![p] =
             [@ EXCEPT !.moduleRowIds = moduleRowIds,
                       !.sumModuleRowId = MapGet(moduleRowIds, NULL, 0)]]
        /\ pc' = [pc EXCEPT ![p].conn =
                    IF NULL \in DOMAIN moduleRowIds THEN "transaction"
                    ELSE "createSum"]
  /\ dbCalls' = [dbCalls EXCEPT ![p].connections = @ + 1]
  /\ UNCHANGED <<advisor, faults, features, store, now, req, daily, lastSeen, pre,
                 submissions>>

\* the locals and tables that the helpers of one connection record thread through
ConnState(p) ==
  [knownModule |-> knownModule,
   moduleDailyUsage |-> moduleDailyUsage,
   moduleUserLastSeen |-> moduleUserLastSeen,
   moduleRowIds |-> conn[p].moduleRowIds,
   calls |-> 0]

Common(p) ==
  [machineId |-> req[p].id, now |-> conn[p].now, utcDay |-> conn[p].utcDay,
   existingDailyRowCounts |-> conn[p].existingDailyRowCounts,
   existingLastSeenRowCounts |-> conn[p].existingLastSeenRowCounts]

\* getOrCreateModuleRowId(null) when the sum row was not cached
ConnCreateSum(p) ==
  /\ pc[p].conn = "createSum"
  /\ LET g == getOrCreateModuleRowId(ConnState(p), CurrentModuleName(p), NULL)
     IN /\ knownModule' = g.st.knownModule
        /\ conn' = [conn EXCEPT ![p] =
             [@ EXCEPT !.moduleRowIds = g.st.moduleRowIds,
                       !.sumModuleRowId = g.rowId]]
        /\ dbCalls' = [dbCalls EXCEPT ![p].connections = @ + g.st.calls]
  /\ pc' = [pc EXCEPT ![p].conn = "transaction"]
  /\ UNCHANGED <<advisor, faults, companionFeatures, features, surfaceDailyUsage,
                 surfaceUserLastSeen, moduleDailyUsage, moduleUserLastSeen, now, req,
                 daily, lastSeen, pre, submissions>>

\* the transaction of the current connection record, committed; then the loop
\* moves to the next record
ConnTransaction(p) ==
  /\ pc[p].conn = "transaction"
  /\ LET st == ConnectionTransaction(ConnState(p), Common(p), CurrentModuleName(p),
                                     conn[p].sumModuleRowId, CurrentConn(p).counts)
         last == conn[p].i = Len(req[p].connections.items)
     IN /\ knownModule' = st.knownModule
        /\ moduleDailyUsage' = st.moduleDailyUsage
        /\ moduleUserLastSeen' = st.moduleUserLastSeen
        /\ conn' = [conn EXCEPT ![p] =
             [@ EXCEPT !.moduleRowIds = st.moduleRowIds,
                       !.i = IF last THEN @ ELSE @ + 1]]
        /\ dbCalls' = [dbCalls EXCEPT ![p].connections = @ + 1 + st.calls]
        /\ pc' = [pc EXCEPT ![p].conn = IF last THEN "done" ELSE "findModuleRowIds"]
  /\ UNCHANGED <<advisor, faults, companionFeatures, features, surfaceDailyUsage,
                 surfaceUserLastSeen, now, req, daily, lastSeen, pre, submissions>>

\* time passes
Tick ==
  /\ now < MaxTime
  /\ now' = now + 1
  /\ UNCHANGED <<advisor, store, locals>>

Step(p) ==
  \/ DailyFindMany(p)
  \/ DailyTransaction(p)
  \/ LastSeenTransaction(p)
  \/ ConnFindDaily(p)
  \/ ConnFindLastSeen(p)
  \/ ConnFindModuleRowIds(p)
  \/ ConnCreateSum(p)
  \/ ConnTransaction(p)

\* Submissions one after the other: a request is submitted only when no other
\* is in progress.
SubmitAlone(r) ==
  /\ \A q \in Procs : Idle(q) \/ Done(q)
  /\ Submit(1, r)

Next ==
  \/ \E r \in Reports : SubmitAlone(r)
  \/ Step(1)
  \/ Tick

Spec == Init /\ [][Next]_vars

-----------------------------------------------------------------------------
(* Store calls that fail *)

\* the records before the first failure
RECURSIVE SurvivingUntilFailure(_, _, _)
SurvivingUntilFailure(list, failed, i) ==
  IF i > Len(list) \/ i \in failed THEN <<>>
  ELSE <<list[i]>> \o SurvivingUntilFailure(list, failed, i + 1)

\* the records of a list whose store call does not fail
RECURSIVE Surviving(_, _, _)
Surviving(list, failed, i) ==
  IF i > Len(list) THEN <<>>
  ELSE (IF i \in failed THEN <<>> ELSE <<list[i]>>) \o Surviving(list, failed, i + 1)

\* the handler of /companion/detailed-usage: the features writer besides the
\* two others; it throws before any store call for another app than companion
SubmitDetailed(p, r, name, doc) ==
  Handler(p, r, IF name = "companion" THEN "upsert" ELSE "done",
          [doc |-> doc, ok |-> name = "companion", failed |-> name # "companion"])

\* writeFeatureUsageData: companionFeatures.upsert
FeaturesUpsert(p) ==
  /\ pc[p].features = "upsert"
  /\ companionFeatures' = Upsert(companionFeatures, req[p].id, features[p].doc)
  /\ pc' = [pc EXCEPT ![p].features = "done"]
  /\ UNCHANGED <<advisor, faults, surfaceDailyUsage, surfaceUserLastSeen, knownModule,
                 moduleDailyUsage, moduleUserLastSeen, now, req, daily, lastSeen,
                 conn, features, pre, dbCalls, submissions>>

\* the upsert rejects: catchErrors sets ok = false
FeaturesUpsertFails(p) ==
  /\ pc[p].features = "upsert"
  /\ features' = [features EXCEPT ![p] = [@ EXCEPT !.ok = FALSE, !.failed = TRUE]]
  /\ pc' = [pc EXCEPT ![p].features = "done"]
  /\ UNCHANGED <<advisor, store, now, req, daily, lastSeen, conn, pre, dbCalls,
                 submissions>>

\* the findMany rejects and the rejection ends the other branches of the
\* request with it
DailyFindManyFailsRequest(p) ==
  /\ pc[p].daily = "findMany"
  /\ daily' = [daily EXCEPT ![p] = [@ EXCEPT !.ok = FALSE, !.committed = FALSE]]
  /\ pc' = [pc EXCEPT ![p] = [@ EXCEPT !.daily = "done", !.lastSeen = "done",
                                       !.conn = "done"]]
  /\ dbCalls' = [dbCalls EXCEPT ![p].surfaces = @ + 1]
  /\ UNCHANGED <<advisor, features, store, now, req, lastSeen, conn, pre, submissions>>

\* writeSurfacesDailyUsage: the findMany rejects, the function's catch returns
\* false
DailyFindManyFails(p) ==
  /\ pc[p].daily = "findMany"
  /\ daily' = [daily EXCEPT ![p] = [@ EXCEPT !.ok = FALSE, !.committed = FALSE]]
  /\ pc' = [pc EXCEPT ![p].daily = "done"]
  /\ dbCalls' = [dbCalls EXCEPT ![p].surfaces = @ + 1]
  /\ UNCHANGED <<advisor, features, store, now, req, lastSeen, conn, pre, submissions>>

\* writeSurfacesDailyUsage: the upserts of the entries in failed reject and
\* are caught one by one; the transaction is committed, or it rejects (cannot
\* open, times out, cannot commit) and none of its writes is kept
DailyTransactionFails(p, failed, committed) ==
  /\ pc[p].daily = "transaction"
  /\ failed \subseteq 1..Len(daily[p].moduleCounts)
  /\ failed # {} \/ ~committed
  /\ surfaceDailyUsage' =
       IF committed
       THEN DailyUpserts(surfaceDailyUsage, Surviving(daily[p].moduleCounts, failed, 1),
                         daily[p].existingCounts, daily[p].utcDay, req[p].id)
       ELSE surfaceDailyUsage
  /\ daily' = [daily EXCEPT ![p] =
       [@ EXCEPT !.ok = FALSE, !.failed = failed, !.committed = committed]]
  /\ pc' = [pc EXCEPT ![p].daily = "done"]
  /\ dbCalls' = [dbCalls EXCEPT ![p].surfaces = @ + 1 + Len(daily[p].moduleCounts)]
  /\ UNCHANGED <<advisor, companionFeatures, features, surfaceUserLastSeen, knownModule,
                 moduleDailyUsage, moduleUserLastSeen, now, req, lastSeen, conn, pre,
                 submissions>>

\* writeSurfacesLastSeen: the upserts of the surfaces in failed reject and set
\* ok = false; a deleteMany that rejects is caught and ok is left as it is; a
\* transaction that rejects sets ok = false and keeps none of its writes
LastSeenTransactionFails(p, failed, pruneFailed, committed) ==
  /\ pc[p].lastSeen = "transaction"
  /\ failed \subseteq 1..Len(req[p].surfaces.items)
  /\ failed # {} \/ pruneFailed \/ ~committed
  /\ LET surfaces == req[p].surfaces.items
         oldSerialsToPrune == OldSerialsToPrune(surfaces)
         written == LastSeenUpserts(surfaceUserLastSeen, Surviving(surfaces, failed, 1),
                                    req[p].id, lastSeen[p].now)
     IN /\ pruneFailed => Cardinality(oldSerialsToPrune) > 0
        /\ surfaceUserLastSeen' =
             IF ~committed THEN surfaceUserLastSeen
             ELSE IF Cardinality(oldSerialsToPrune) > 0 /\ ~pruneFailed
                  THEN DeleteSerials(written, req[p].id, oldSerialsToPrune)
                  ELSE written
        /\ dbCalls' = [dbCalls EXCEPT ![p].surfaces =
             @ + 1 + Len(surfaces)
               + (IF Cardinality(oldSerialsToPrune) > 0 THEN 1 ELSE 0)]
  /\ lastSeen' = [lastSeen EXCEPT ![p] =
       [@ EXCEPT !.ok = committed /\ failed = {}, !.failed = failed,
                 !.pruneFailed = pruneFailed, !.committed = committed]]
  /\ pc' = [pc EXCEPT ![p].lastSeen = "done"]
  /\ UNCHANGED <<advisor, companionFeatures, features, surfaceDailyUsage, knownModule,
                 moduleDailyUsage, moduleUserLastSeen, now, req, daily, conn, pre,
                 submissions>>

\* writeConnectionsUsage: one of the two findMany of Promise.all rejects, and
\* with it the function; the handler's rejection callback sets ok = false
ConnFindManyFails(p) ==
  /\ pc[p].conn \in {"findMany", "findDaily", "findLastSeen"}
  /\ conn' = [conn EXCEPT ![p] = [@ EXCEPT !.ok = FALSE, !.rejected = TRUE]]
  /\ pc' = [pc EXCEPT ![p].conn = "done"]
  /\ dbCalls' = [dbCalls EXCEPT ![p].connections = @ + 1]
  /\ UNCHANGED <<advisor, features, store, now, req, daily, lastSeen, pre, submissions>>

\* the catch of the loop body returns to the loop
AfterFailedRecordReturn(p) == "done"

\* catch (e) { ok = false } at the end of the loop body: the loop goes on with
\* the next record
AfterFailedRecord(p) ==
  IF conn[p].i = Len(req[p].connections.items) THEN "done" ELSE "findModuleRowIds"

\* findModuleRowIds or the creation of the sum row rejects: the catch of the
\* loop body sets ok = false and the loop moves to the next record
ConnLookupFails(p) ==
  /\ pc[p].conn \in {"findModuleRowIds", "createSum"}
  /\ LET last == conn[p].i = Len(req[p].connections.items)
     IN /\ conn' = [conn EXCEPT ![p] =
             [@ EXCEPT !.ok = FALSE,
                       !.failed = @ \cup {<<conn[p].i, 0>>},
                       !.i = IF last THEN @ ELSE @ + 1]]
        /\ pc' = [pc EXCEPT ![p].conn = AfterFailedRecord(p)]
  /\ dbCalls' = [dbCalls EXCEPT ![p].connections = @ + 1]
  /\ UNCHANGED <<advisor, features, store, now, req, daily, lastSeen, pre, submissions>>

\* the loop over the versions of one connection record, the versions in failed
\* rejecting: at the creation of their identity, or, for those in created, at
\* the update of their counts
RECURSIVE VersionUpdatesFailing(_, _, _, _, _, _, _)
VersionUpdatesFailing(st, common, moduleName, counts, i, failed, created) ==
  IF i > Len(counts) THEN st
  ELSE LET g == getOrCreateModuleRowId(st, moduleName, counts[i].ver)
           after == IF i \notin failed
                    THEN updateConnectionModuleCounts(g.st, common, g.rowId, counts[i].cnt)
                    ELSE IF i \in created THEN g.st ELSE st
       IN VersionUpdatesFailing(after, common, moduleName, counts, i + 1, failed, created)

\* the transaction of the current connection record with rejected calls: the
\* update of the sum row (sumFailed), versions (failed), or the transaction
\* itself (~committed), which keeps the identities created outside of it
ConnTransactionFails(p, sumFailed, failed, created, committed) ==
  /\ pc[p].conn = "transaction"
  /\ failed \subseteq 1..Len(CurrentConn(p).counts)
  /\ created \subseteq failed
  /\ sumFailed \/ failed # {} \/ ~committed
  /\ LET counts == CurrentConn(p).counts
         summed == IF sumFailed THEN ConnState(p)
                   ELSE updateConnectionModuleCounts(ConnState(p), Common(p),
                                                     conn[p].sumModuleRowId,
                                                     TotalInstances(counts))
         st == VersionUpdatesFailing(summed, Common(p), CurrentModuleName(p),
                                     counts, 1, failed, created)
         last == conn[p].i = Len(req[p].connections.items)
     IN /\ knownModule' = st.knownModule
        /\ moduleDailyUsage' = IF committed THEN st.moduleDailyUsage ELSE moduleDailyUsage
        /\ moduleUserLastSeen' =
             IF committed THEN st.moduleUserLastSeen ELSE moduleUserLastSeen
        /\ conn' = [conn EXCEPT ![p] =
             [@ EXCEPT !.ok = FALSE,
                       !.moduleRowIds = st.moduleRowIds,
                       !.failed = @ \cup (IF ~committed
                                       THEN {<<conn[p].i, 0>>, <<conn[p].i, -2>>}
                                       ELSE {})
                                    \cup (IF sumFailed THEN {<<conn[p].i, -1>>} ELSE {})
                                    \cup {<<conn[p].i, j>> : j \in failed},
                       !.i = IF last THEN @ ELSE @ + 1]]
        /\ dbCalls' = [dbCalls EXCEPT ![p].connections = @ + 1 + st.calls]
        /\ pc' = [pc EXCEPT ![p].conn = AfterFailedRecord(p)]
  /\ UNCHANGED <<advisor, companionFeatures, features, surfaceDailyUsage,
                 surfaceUserLastSeen, now, req, daily, lastSeen, pre, submissions>>

\* a step of a writer in which store calls fail
Failing(step) ==
  /\ faults < MaxFaults
  /\ faults' = faults + 1
  /\ step

StepFails(p) ==
  \/ Failing(FeaturesUpsertFails(p))
  \/ Failing(DailyFindManyFails(p))
  \/ \E failed \in SUBSET (1..Len(daily[p].moduleCounts)), committed \in BOOLEAN :
       Failing(DailyTransactionFails(p, failed, committed))
  \/ \E failed \in SUBSET (1..Len(req[p].surfaces.items)),
        pruneFailed, committed \in BOOLEAN :
       Failing(LastSeenTransactionFails(p, failed, pruneFailed, committed))
  \/ Failing(ConnFindManyFails(p))
  \/ Failing(ConnLookupFails(p))
  \/ /\ pc[p].conn = "transaction"
     /\ \E failed \in SUBSET (1..Len(CurrentConn(p).counts)) :
          \E created \in SUBSET failed, sumFailed, committed \in BOOLEAN :
            Failing(ConnTransactionFails(p, sumFailed, failed, created, committed))

\* the reports submitted where store calls fail
FaultReports ==
  {Report(u, Defined(s), Defined(<<>>)) :
     u \in Users,
     s \in {<<Surface(<<"l","e","g","a","c","y">>, md5(<<"s","1">>), Unknown)>>,
            <<Surface(ModA, <<"p",":","s","1">>, StreamDeck)>>,
            SurfacesOf(ModA, 2) \o SurfacesOf(ModX, 1)}}
  \cup {Report(u, Defined(<<>>),
               Defined(<<Conn(ModX, <<VC(V1, 2), VC(<<"2",".","0">>, 1)>>),
                         Conn(<<"y">>, <<VC(V1, 1)>>)>>)) : u \in Users}
  \cup {Report(u, Defined(SurfacesOf(ModA, 1)), Defined(<<Conn(ModX, <<VC(V1, 1)>>)>>))
          : u \in Users}

\* Submissions one after the other, by either handler, every store call of
\* which may fail
NextFaults ==
  \/ \E r \in FaultReports : SubmitAlone(r)
  \/ \E r \in FaultReports, name \in {"companion", "satellite"}, doc \in 1..2 :
       /\ \A q \in Procs : Idle(q) \/ Done(q)
       /\ SubmitDetailed(1, r, name, doc)
  \/ Step(1)
  \/ FeaturesUpsert(1)
  \/ StepFails(1)

SpecFaults == Init /\ [][NextFaults]_vars

-----------------------------------------------------------------------------
(* The old metrics route: the body is converted into surfaces and connections *)

\* values of a JSON body that are no strings: a property that is missing, and
\* an object that cannot be converted to a primitive (its own toString is not
\* a function)
JsUndefined == <<"<undefined>">>
Unconvertible == <<"<object>">>

\* String(value): the conversion throws a TypeError for an object without a
\* callable toString, and gives "undefined" for undefined
String(value) ==
  [threw |-> value = Unconvertible,
   value |-> IF value = JsUndefined THEN <<"u","n","d","e","f","i","n","e","d">>
             ELSE value]

\* the numbers of a body: a number, a string that is no number, an object
\* that cannot be converted
Num(n) == [kind |-> "number", n |-> n]
NotANumber == [kind |-> "string", n |-> 0]
NoNumber == [kind |-> "object", n |-> 0]

\* Number(count): throws for the object, NaN for the string
ToNumber(count) ==
  [threw |-> count.kind = "object", nan |-> count.kind = "string", value |-> count.n]

\* the outcome of the loop body for one entry
Pushed(value) == [continue |-> FALSE, threw |-> FALSE, value |-> <<value>>]
Continue == [continue |-> TRUE, threw |-> FALSE, value |-> <<>>]
Threw == [continue |-> FALSE, threw |-> TRUE, value |-> <<>>]

\* try { for (const entry of ...) { ... push(...) } } catch (e) { }: the
\* entries are pushed one after the other; an entry that throws ends the loop
RECURSIVE PushEach(_, _)
PushEach(out, outcomes) ==
  IF outcomes = <<>> THEN out
  ELSE IF Head(outcomes).continue THEN PushEach(out, Tail(outcomes))
  ELSE IF Head(outcomes).threw THEN out
  ELSE PushEach(out \o Head(outcomes).value, Tail(outcomes))

\* an entry [serial, info] of s; info is <<>> for null, <<type, description>>
\* for an object
SurfaceOfS(entry) ==
  IF ~Truthy(entry.serial) \/ entry.info = <<>> THEN Continue
  ELSE LET type == String(entry.info[1])
           description == String(entry.info[2])
       IN IF type.threw \/ description.threw THEN Threw
          ELSE Pushed(Surface(IF Truthy(type.value) THEN type.value
                              ELSE <<"u","n","k","n","o","w","n">>,
                              entry.serial,
                              IF Truthy(description.value) THEN description.value
                              ELSE Unknown))

\* an entry of d, a hash of a serial
SurfaceOfD(hash) ==
  IF ~Truthy(hash) THEN Continue
  ELSE IF String(hash).threw THEN Threw
  ELSE Pushed(Surface(<<"l","e","g","a","c","y">>, String(hash).value, Unknown))

\* safeCounts of the counts of one module of mv: the counts that are no number
\* or negative are left out; a count that throws ends the conversion
RECURSIVE SafeCounts(_, _)
SafeCounts(safeCounts, counts) ==
  IF counts = <<>> THEN Pushed(safeCounts)
  ELSE LET safeCount == ToNumber(Head(counts).count)
       IN IF safeCount.threw THEN Threw
          ELSE IF safeCount.nan \/ safeCount.value < 0
               THEN SafeCounts(safeCounts, Tail(counts))
               ELSE SafeCounts(Append(safeCounts,
                                      VC(Head(counts).version, safeCount.value)),
                               Tail(counts))

\* an entry [moduleId, counts] of mv; counts is missing (null) or a list of
\* [version, count]
ConnectionOfMv(entry) ==
  IF ~Truthy(entry.moduleId) \/ ~entry.counts.defined THEN Continue
  ELSE LET safeCounts == SafeCounts(<<>>, entry.counts.items)
       IN IF safeCounts.threw THEN Threw
          ELSE Pushed(Conn(entry.moduleId, safeCounts.value[1]))

\* an entry [moduleId, count] of m
ConnectionOfM(entry) ==
  IF ~Truthy(entry.moduleId) \/ entry.count = Num(0) THEN Continue
  ELSE LET safeCount == ToNumber(entry.count)
       IN IF safeCount.threw THEN Threw
          ELSE IF safeCount.nan \/ safeCount.value < 0 THEN Continue
          ELSE Pushed(Conn(entry.moduleId,
                           <<VC(<<"u","n","k","n","o","w","n">>, safeCount.value)>>))

\* the outcomes of the entries of the section of the body that is converted:
\* s if it is there, else d; mv if it is there, else m
SurfaceOutcomes(body) ==
  IF body.s.defined THEN [k \in 1..Len(body.s.items) |-> SurfaceOfS(body.s.items[k])]
  ELSE IF body.d.defined
       THEN [k \in 1..Len(body.d.items) |-> SurfaceOfD(body.d.items[k])]
       ELSE <<>>

ConnectionOutcomes(body) ==
  IF body.mv.defined
  THEN [k \in 1..Len(body.mv.items) |-> ConnectionOfMv(body.mv.items[k])]
  ELSE IF body.m.defined
       THEN [k \in 1..Len(body.m.items) |-> ConnectionOfM(body.m.items[k])]
       ELSE <<>>

\* an identifier that is no string (a number)
NotAString == "<number>"

\* !i || typeof i !== "string"
NoIdentifier(i) == i = "" \/ i = NotAString

\* the handler without the test of the identifier
SubmitOldMetricsUnchecked(p, body) ==
  /\ \A q \in Procs : Idle(q) \/ Done(q)
  /\ Handler(p, [id |-> body.i,
                 surfaces |-> Defined(PushEach(<<>>, SurfaceOutcomes(body))),
                 connections |-> Defined(PushEach(<<>>, ConnectionOutcomes(body))),
                 body |-> body],
             "done", NoFeatures)

\* the handler of the old metrics route: without an identifier it answers
\* ok = false and starts no writer; else it converts the body and runs the two
\* writers on the surfaces and connections it pushed
SubmitOldMetrics(p, body) ==
  /\ \A q \in Procs : Idle(q) \/ Done(q)
  /\ IF NoIdentifier(body.i)
     THEN Handler(p, [id |-> "", surfaces |-> Undefined, connections |-> Undefined,
                      body |-> body],
                  "done", [NoFeatures EXCEPT !.ok = FALSE])
     ELSE Handler(p, [id |-> body.i,
                      surfaces |-> Defined(PushEach(<<>>, SurfaceOutcomes(body))),
                      connections |-> Defined(PushEach(<<>>, ConnectionOutcomes(body))),
                      body |-> body],
                  "done", NoFeatures)

\* entries of the bodies
GoodInfo == <<ModA, StreamDeck>>
BadInfo == <<Unconvertible, StreamDeck>>
EntryS(k, info) == [serial |-> SurfacesOf(ModA, k)[k].id, info |-> info]
EntryMv(moduleId, count) ==
  [moduleId |-> moduleId, counts |-> Defined(<<[version |-> V1, count |-> count]>>)]
EntryM(moduleId, count) == [moduleId |-> moduleId, count |-> count]

Body(i, s, d, mv, m) == [i |-> i, s |-> s, d |-> d, mv |-> mv, m |-> m]

\* the numbers of a body, and its lists of two entries
BodyCounts == {Num(1), Num(0 - 1), NotANumber, NoNumber}

\* the bodies sent to the old metrics route: one section each, two entries of
\* which each may be well formed, left out by the loop, or not convertible;
\* a body with surfaces and connections, and one without identifier
LegacyBodies ==
  {Body(u, Defined(<<EntryS(1, a), EntryS(2, b)>>), Undefined, Undefined, Undefined)
     : u \in Users, a \in {GoodInfo, BadInfo, <<>>}, b \in {GoodInfo, BadInfo}}
  \cup {Body(u, Undefined, Defined(<<a, b>>), Undefined, Undefined)
          : u \in Users, a \in {md5(<<"s","1">>), Unconvertible, <<>>},
            b \in {md5(<<"s","2">>), Unconvertible}}
  \cup {Body(u, Undefined, Undefined,
             Defined(<<EntryMv(ModX, a), EntryMv(<<"y">>, b)>>), Undefined)
          : u \in Users, a \in BodyCounts, b \in {Num(1), NoNumber}}
  \cup {Body(u, Undefined, Undefined, Undefined,
             Defined(<<EntryM(ModX, a), EntryM(<<"y">>, b)>>))
          : u \in Users, a \in BodyCounts \cup {Num(0)}, b \in {Num(1), NoNumber}}
  \cup {Body(u, Defined(<<EntryS(1, GoodInfo)>>), Defined(<<md5(<<"s","1">>)>>),
             Defined(<<EntryMv(ModX, Num(1))>>), Defined(<<EntryM(ModX, Num(2))>>))
          : u \in Users \cup {"", NotAString}}

NextLegacy ==
  \/ \E body \in LegacyBodies : SubmitOldMetrics(1, body)
  \/ Step(1)

SpecLegacy == Init /\ [][NextLegacy]_vars

-----------------------------------------------------------------------------
(* Counts below zero in the detailed usage route *)

\* z.record(z.string(), z.number()) lets a count below zero through: reports
\* with such counts, alone, next to another version, and for a module named by
\* two records
NegativeReports ==
  {Report(u, Defined(SurfacesOf(ModA, 1)), Defined(c)) :
     u \in Users,
     c \in {<<Conn(ModX, <<VC(V1, 1)>>)>>,
            <<Conn(ModX, <<VC(V1, 0 - 2)>>)>>,
            <<Conn(ModX, <<VC(V1, 2), VC(<<"2",".","0">>, 0 - 1)>>)>>,
            <<Conn(ModX, <<VC(V1, 2)>>), Conn(ModX, <<VC(V1, 0 - 1)>>)>>,
            <<Conn(<<"y">>, <<VC(V1, 0 - 1)>>), Conn(ModX, <<VC(V1, 2)>>)>>}}

\* Detailed usage submissions one after the other
NextCounts ==
  \/ \E r \in NegativeReports, name \in {"companion", "satellite"}, doc \in 1..2 :
       /\ \A q \in Procs : Idle(q) \/ Done(q)
       /\ SubmitDetailed(1, r, name, doc)
  \/ Step(1)
  \/ FeaturesUpsert(1)

SpecCounts == Init /\ [][NextCounts]_vars

-----------------------------------------------------------------------------
(* Requests in progress at the same time *)

\* the reports of the concurrent requests: one of the two lists is empty
ConcurrentReports ==
  {Report(u, Defined(SurfacesOf(ModA, n)), Defined(<<>>)) : u \in Users, n \in 1..2}
  \cup {Report(u, Defined(<<>>), Defined(<<Conn(ModX, <<VC(V1, c)>>)>>))
          : u \in Users, c \in 1..2}
  \cup {Report(u, Defined(<<>>),
               Defined(<<Conn(ModX, <<VC(V1, 2)>>), Conn(ModX, <<VC(V1, 1)>>)>>))
          : u \in Users}

NextConcurrent ==
  \E p \in Procs :
    \/ \E r \in ConcurrentReports : Submit(p, r)
    \/ Step(p)

SpecConcurrent == Init /\ [][NextConcurrent]_vars

\* Two subjects: every request of process 1 carries the id of the first,
\* every request of process 2 the id of the second.
SubjectOf(p) == IF p = 1 THEN "u1" ELSE "u2"

SubjectReports(u) ==
  {Report(u, Defined(<<Surface(ModA, <<"s","1">>, StreamDeck)>>),
          Defined(<<Conn(ModX, <<VC(V1, c)>>)>>)) : c \in 1..2}
  \cup {Report(u, Defined(<<Surface(<<"l","e","g","a","c","y">>, md5(<<"s","1">>),
                                    Unknown)>>), Defined(<<>>)),
        Report(u, Defined(SurfacesOf(ModA, 2)), Defined(<<>>))}

NextSubjects ==
  \E p \in Procs :
    \/ \E r \in SubjectReports(SubjectOf(p)) : Submit(p, r)
    \/ Step(p)

SpecSubjects == Init /\ [][NextSubjects]_vars

\* One delivery of report r, alone, on the tables of base at time t: the
\* connection records one after the other
RECURSIVE OnceConnections(_, _, _, _)
OnceConnections(st, common, connections, i) ==
  IF i > Len(connections) THEN st
  ELSE LET moduleName == slice(connections[i].moduleId, 0, ConnModuleNameMax)
           found == [st EXCEPT !.moduleRowIds =
                                  findModuleRowIds(st.knownModule, moduleName)]
           g == getOrCreateModuleRowId(found, moduleName, NULL)
       IN OnceConnections(
            ConnectionTransaction(g.st, common, moduleName, g.rowId,
                                  connections[i].counts),
            common, connections, i + 1)

Once(base, r, t) ==
  LET utcDay == UtcDay(t)
      common == [machineId |-> r.id, now |-> t, utcDay |-> utcDay,
                 existingDailyRowCounts |->
                   ExistingDailyRowCounts(base.moduleDailyUsage, utcDay, r.id),
                 existingLastSeenRowCounts |->
                   ExistingLastSeenRowCounts(base.moduleUserLastSeen, r.id)]
      st == [knownModule |-> base.knownModule,
             moduleDailyUsage |-> base.moduleDailyUsage,
             moduleUserLastSeen |-> base.moduleUserLastSeen,
             moduleRowIds |-> EmptyTable, calls |-> 0]
      after == IF NothingToDo(r.connections) THEN st
               ELSE OnceConnections(st, common, r.connections.items, 1)
  IN [surfaceDailyUsage |->
        IF NothingToDo(r.surfaces) THEN base.surfaceDailyUsage
        ELSE DailyUpserts(base.surfaceDailyUsage,
                          BuildModuleCounts(<<>>, r.surfaces.items),
                          ExistingSurfaceCounts(base.surfaceDailyUsage, utcDay, r.id),
                          utcDay, r.id),
      surfaceUserLastSeen |->
        IF NothingToDo(r.surfaces) THEN base.surfaceUserLastSeen
        ELSE DeleteSerials(LastSeenUpserts(base.surfaceUserLastSeen, r.surfaces.items,
                                           r.id, t),
                           r.id, OldSerialsToPrune(r.surfaces.items)),
      knownModule |-> after.knownModule,
      moduleDailyUsage |-> after.moduleDailyUsage,
      moduleUserLastSeen |-> after.moduleUserLastSeen]

-----------------------------------------------------------------------------
(* Claims about submissions made one after the other (Spec) *)

\* C1: over submissions of one subject that each complete before the next
\* begins, no daily bucket (surface module, connection module and version,
\* connection all-versions identity) holds less after a submission than it
\* held before it.
C1_DailyMaxNeverDecreases ==
  Done(1) =>
    /\ \A k \in DOMAIN pre[1].surfaceDailyUsage :
         k \in DOMAIN surfaceDailyUsage
         /\ surfaceDailyUsage[k] >= pre[1].surfaceDailyUsage[k]
    /\ \A k \in DOMAIN pre[1].moduleDailyUsage :
         k \in DOMAIN moduleDailyUsage
         /\ moduleDailyUsage[k] >= pre[1].moduleDailyUsage[k]

\* the surface module ids of a report that are longer than the column
LongModuleIds(r) ==
  IF r.surfaces.defined
  THEN {r.surfaces.items[i].moduleId : i \in DOMAIN r.surfaces.items}
         \cap {LongA, Rep("m", ModuleNameMax) \o <<"2">>}
  ELSE {}

\* the number of surfaces of a report with the module id m
SurfacesWith(r, m) ==
  Cardinality({i \in DOMAIN r.surfaces.items : r.surfaces.items[i].moduleId = m})

\* C38: for a surface module id longer than 128 characters, the daily bucket
\* stored under its first 128 characters holds no less after a submission
\* than it held before it on the same UTC day, and no less than the number of
\* surfaces the submission reported under any module id with those first 128
\* characters.
C38_TruncatedBucketNeverDecreases ==
  (Done(1) /\ daily[1].ok) =>
    \A m \in LongModuleIds(req[1]) :
      LET k == <<daily[1].utcDay, req[1].id, slice(m, 0, ModuleNameMax)>>
      IN /\ k \in DOMAIN surfaceDailyUsage
         /\ surfaceDailyUsage[k] >= SurfacesWith(req[1], m)
         /\ k \in DOMAIN pre[1].surfaceDailyUsage
              => surfaceDailyUsage[k] >= pre[1].surfaceDailyUsage[k]

\* the second half alone, in a first submission of a day: two module ids of
\* the submission with the same first 128 characters
C38_SharedPrefixKeepsLargest ==
  (Done(1) /\ daily[1].ok /\ Cardinality(LongModuleIds(req[1])) = 2) =>
    \A m \in LongModuleIds(req[1]) :
      LET k == <<daily[1].utcDay, req[1].id, slice(m, 0, ModuleNameMax)>>
      IN k \in DOMAIN surfaceDailyUsage
         /\ surfaceDailyUsage[k] >= SurfacesWith(req[1], m)

\* module ids that fit the column: the bucket never decreases
C38_ShortModuleIdNeverDecreases ==
  (Done(1) /\ daily[1].ok /\ LongModuleIds(req[1]) = {}) =>
    \A k \in DOMAIN pre[1].surfaceDailyUsage :
      k \in DOMAIN surfaceDailyUsage
      /\ surfaceDailyUsage[k] >= pre[1].surfaceDailyUsage[k]

\* C39: after a successful writeSurfaces every surface of the submission has
\* a last-seen row of the subject under its module id and its serial, each cut
\* to the column: the pruning of legacy rows removes no row written for a
\* surface of the same submission.
C39_PruningKeepsRowsOfTheSubmission ==
  (Done(1) /\ lastSeen[1].ok /\ ~NothingToDo(req[1].surfaces)) =>
    \A i \in DOMAIN req[1].surfaces.items :
      <<req[1].id, slice(req[1].surfaces.items[i].moduleId, 0, ModuleNameMax),
        slice(req[1].surfaces.items[i].id, 0, SerialMax)>>
        \in DOMAIN surfaceUserLastSeen

\* submissions none of whose serials is a legacy hash form of a reported serial
C39_NoHashAmongSerialsKeepsRows ==
  (Done(1) /\ lastSeen[1].ok /\ ~NothingToDo(req[1].surfaces)
     /\ \A i \in DOMAIN req[1].surfaces.items :
          slice(req[1].surfaces.items[i].id, 0, SerialMax)
            \notin OldSerialsToPrune(req[1].surfaces.items)) =>
    \A i \in DOMAIN req[1].surfaces.items :
      <<req[1].id, slice(req[1].surfaces.items[i].moduleId, 0, ModuleNameMax),
        slice(req[1].surfaces.items[i].id, 0, SerialMax)>>
        \in DOMAIN surfaceUserLastSeen

\* the max_count column of the all-time rows
AllTimeCounts(table) == [k \in DOMAIN table |-> table[k].max_count]

\* C3: a report submitted again right after itself, on the same UTC day,
\* leaves every daily bucket and every all-time count as the first submission
\* left them, and adds or removes no row.
C3_ResubmissionChangesNothing ==
  (Done(1) /\ pre[1].seq >= 2 /\ pre[1].prev = req[1]
     /\ pre[1].prevDay = daily[1].utcDay) =>
    /\ surfaceDailyUsage = pre[1].surfaceDailyUsage
    /\ moduleDailyUsage = pre[1].moduleDailyUsage
    /\ AllTimeCounts(moduleUserLastSeen) = AllTimeCounts(pre[1].moduleUserLastSeen)
    /\ DOMAIN surfaceUserLastSeen = DOMAIN pre[1].surfaceUserLastSeen
    /\ knownModule = pre[1].knownModule

C3_Witness ==
  /\ Done(1) /\ pre[1].seq = 2 /\ pre[1].prev = req[1]
  /\ pre[1].prevDay = daily[1].utcDay
  /\ lastSeen[1].now > 0
  /\ Len(req[1].surfaces.items) > 0 /\ Len(req[1].connections.items) > 0
  /\ dbCalls[1].surfaces > 0 /\ dbCalls[1].connections > 0

\* the all-time count of the identity (moduleName, version) of a user, in the
\* given tables; 0 when it has none
AllTimeOf(known, table, user, moduleName, version) ==
  IF <<moduleName, version>> \in DOMAIN known
     /\ <<user, known[<<moduleName, version>>]>> \in DOMAIN table
  THEN table[<<user, known[<<moduleName, version>>]>>].max_count
  ELSE 0

\* C5: after each writeConnections the all-time count of every identity the
\* submission reports (the all-versions identity with the sum of the record's
\* counts, each version with its own count) is the larger of its previous
\* value and the reported count.
C5_AllTimeIsMaxOfPreviousAndReported ==
  Done(1) =>
    \A i \in 1..Len(req[1].connections.items) :
      LET c == req[1].connections.items[i]
          moduleName == slice(c.moduleId, 0, ConnModuleNameMax)
          AllTime(v) == AllTimeOf(knownModule, moduleUserLastSeen, req[1].id,
                                  moduleName, v)
          Before(v) == AllTimeOf(pre[1].knownModule, pre[1].moduleUserLastSeen,
                                 req[1].id, moduleName, v)
      IN /\ AllTime(<<>>) = Max(Before(<<>>), TotalInstances(c.counts))
         /\ \A j \in 1..Len(c.counts) :
              LET v == slice(c.counts[j].ver, 0, VersionMax)
              IN AllTime(v) = Max(Before(v), c.counts[j].cnt)

IsEmptyArg(arg) == ~arg.defined \/ arg.items = <<>>

\* C6: writeSurfaces and writeConnections given an empty or missing list
\* return success without a single store call, and the tables they write are
\* as they were.
C6_EmptyInputIsNoOp ==
  /\ (pre[1].seq >= 1 /\ pc[1].daily = "done" /\ pc[1].lastSeen = "done"
        /\ IsEmptyArg(req[1].surfaces)) =>
       /\ daily[1].ok /\ lastSeen[1].ok
       /\ dbCalls[1].surfaces = 0
       /\ surfaceDailyUsage = pre[1].surfaceDailyUsage
       /\ surfaceUserLastSeen = pre[1].surfaceUserLastSeen
  /\ (pre[1].seq >= 1 /\ pc[1].conn = "done" /\ IsEmptyArg(req[1].connections)) =>
       /\ conn[1].ok
       /\ dbCalls[1].connections = 0
       /\ knownModule = pre[1].knownModule
       /\ moduleDailyUsage = pre[1].moduleDailyUsage
       /\ moduleUserLastSeen = pre[1].moduleUserLastSeen

C6_Witness ==
  /\ Done(1) /\ pre[1].seq = 2
  /\ req[1].surfaces = Defined(<<>>) /\ req[1].connections = Defined(<<>>)
  /\ surfaceDailyUsage # EmptyTable /\ surfaceUserLastSeen # EmptyTable
  /\ moduleDailyUsage # EmptyTable /\ moduleUserLastSeen # EmptyTable
  /\ Accepted(1)

\* C23: in every store state that a sequence of surface submissions reaches, a
\* subject has at most one last-seen row per physical serial: no two rows of
\* one subject have the same serial under two module ids, and none has a
\* legacy hash form of the serial of another.
C23_OneLastSeenRowPerSerial ==
  \A k1, k2 \in DOMAIN surfaceUserLastSeen :
    (k1 # k2 /\ k1[1] = k2[1]) =>
      /\ k1[3] # k2[3]
      /\ k1[3] \notin OldSerials(k2[3])

\* the daily count of the identity (moduleName, version) of a user on a day,
\* in the given tables; 0 when it has none
DailyCountOf(known, table, utcDay, user, moduleName, version) ==
  IF <<moduleName, version>> \in DOMAIN known
     /\ <<utcDay, user, known[<<moduleName, version>>]>> \in DOMAIN table
  THEN table[<<utcDay, user, known[<<moduleName, version>>]>>]
  ELSE 0

\* C26: after a successful writeConnections, for every reported module the
\* daily and the all-time count of the all-versions identity are the larger of
\* their previous value and the sum of the module's per-version counts in the
\* submission, and those of each (module, version) identity the larger of
\* their previous value and that version's count.
C26_ConnectionCountsAreMaxOfPreviousAndReported ==
  (pre[1].seq >= 1 /\ pc[1].conn = "done" /\ conn[1].ok) =>
    \A i \in 1..Len(req[1].connections.items) :
      LET c == req[1].connections.items[i]
          moduleName == slice(c.moduleId, 0, ConnModuleNameMax)
          Merged(version, count) ==
            /\ DailyCountOf(knownModule, moduleDailyUsage, conn[1].utcDay, req[1].id,
                            moduleName, version)
                 = Max(DailyCountOf(pre[1].knownModule, pre[1].moduleDailyUsage,
                                    conn[1].utcDay, req[1].id, moduleName, version),
                       count)
            /\ AllTimeOf(knownModule, moduleUserLastSeen, req[1].id, moduleName, version)
                 = Max(AllTimeOf(pre[1].knownModule, pre[1].moduleUserLastSeen,
                                 req[1].id, moduleName, version),
                       count)
      IN /\ Merged(<<>>, TotalInstances(c.counts))
         /\ \A j \in 1..Len(c.counts) :
              Merged(slice(c.counts[j].ver, 0, VersionMax), c.counts[j].cnt)

\* the report names a connection identity more than once: two records of one
\* module, or two versions of a record that are equal in their first 32
\* characters
RepeatsIdentity(r) ==
  LET items == r.connections.items
  IN \/ \E i, k \in 1..Len(items) :
          /\ i # k
          /\ slice(items[i].moduleId, 0, ConnModuleNameMax)
               = slice(items[k].moduleId, 0, ConnModuleNameMax)
     \/ \E i \in 1..Len(items) : \E j, l \in 1..Len(items[i].counts) :
          /\ j # l
          /\ slice(items[i].counts[j].ver, 0, VersionMax)
               = slice(items[i].counts[l].ver, 0, VersionMax)

\* C36: when one connections submission names an identity more than once, the
\* daily and the all-time count stored for it after the submission are at
\* least the largest count the submission reports for it, and at least the
\* count stored before.
C36_RepeatedIdentityKeepsLargest ==
  (pre[1].seq >= 1 /\ pc[1].conn = "done" /\ conn[1].ok /\ RepeatsIdentity(req[1])) =>
    \A i \in 1..Len(req[1].connections.items) :
      LET c == req[1].connections.items[i]
          moduleName == slice(c.moduleId, 0, ConnModuleNameMax)
          AtLeast(version, count) ==
            /\ DailyCountOf(knownModule, moduleDailyUsage, conn[1].utcDay, req[1].id,
                            moduleName, version) >= count
            /\ DailyCountOf(knownModule, moduleDailyUsage, conn[1].utcDay, req[1].id,
                            moduleName, version)
                 >= DailyCountOf(pre[1].knownModule, pre[1].moduleDailyUsage,
                                 conn[1].utcDay, req[1].id, moduleName, version)
            /\ AllTimeOf(knownModule, moduleUserLastSeen, req[1].id, moduleName, version)
                 >= count
            /\ AllTimeOf(knownModule, moduleUserLastSeen, req[1].id, moduleName, version)
                 >= AllTimeOf(pre[1].knownModule, pre[1].moduleUserLastSeen,
                              req[1].id, moduleName, version)
      IN /\ AtLeast(<<>>, TotalInstances(c.counts))
         /\ \A j \in 1..Len(c.counts) :
              Truthy(c.counts[j].ver) =>
                AtLeast(slice(c.counts[j].ver, 0, VersionMax), c.counts[j].cnt)

\* the same for the submissions that name every identity once, with versions
\* that are not empty
C36_SingleIdentityKeepsLargest ==
  (/\ pre[1].seq >= 1 /\ pc[1].conn = "done" /\ conn[1].ok
   /\ ~RepeatsIdentity(req[1])
   /\ \A i \in 1..Len(req[1].connections.items) :
        \A j \in 1..Len(req[1].connections.items[i].counts) :
          Truthy(req[1].connections.items[i].counts[j].ver)) =>
    \A i \in 1..Len(req[1].connections.items) :
      LET c == req[1].connections.items[i]
          moduleName == slice(c.moduleId, 0, ConnModuleNameMax)
      IN /\ DailyCountOf(knownModule, moduleDailyUsage, conn[1].utcDay, req[1].id,
                         moduleName, <<>>) >= TotalInstances(c.counts)
         /\ \A j \in 1..Len(c.counts) :
              DailyCountOf(knownModule, moduleDailyUsage, conn[1].utcDay, req[1].id,
                           moduleName, slice(c.counts[j].ver, 0, VersionMax))
                >= c.counts[j].cnt

\* C37: the all-versions identity of a connection module is another identity
\* than that of each reported version, the empty version string included: no
\* merge of a version's count writes to the all-versions row, so that after a
\* submission (which names every identity once) the daily and the all-time
\* count of the all-versions row are at least the sum of the counts of the
\* versions.
C37_AllVersionsRowHoldsTheSum ==
  (pre[1].seq >= 1 /\ pc[1].conn = "done" /\ conn[1].ok /\ ~RepeatsIdentity(req[1])) =>
    \A i \in 1..Len(req[1].connections.items) :
      LET c == req[1].connections.items[i]
          moduleName == slice(c.moduleId, 0, ConnModuleNameMax)
      IN /\ <<moduleName, <<>>>> \in DOMAIN knownModule
         /\ \A j \in 1..Len(c.counts) :
              LET key == <<moduleName, slice(c.counts[j].ver, 0, VersionMax)>>
              IN /\ key \in DOMAIN knownModule
                 /\ knownModule[key] # knownModule[<<moduleName, <<>>>>]
         /\ DailyCountOf(knownModule, moduleDailyUsage, conn[1].utcDay, req[1].id,
                         moduleName, <<>>) >= TotalInstances(c.counts)
         /\ AllTimeOf(knownModule, moduleUserLastSeen, req[1].id, moduleName, <<>>)
              >= TotalInstances(c.counts)

\* the row of a table under a key; empty when there is none
RowOf(table, key) == IF key \in DOMAIN table THEN <<table[key]>> ELSE <<>>

\* the stored surface modules that a report names
ReportedSurfaceModules(r) ==
  {slice(r.surfaces.items[i].moduleId, 0, ModuleNameMax) : i \in 1..Len(r.surfaces.items)}

\* the stored connection identities that a report names: of each record the
\* all-versions identity and one per version
ReportedIdentities(r) ==
  UNION {LET c == r.connections.items[i]
             moduleName == slice(c.moduleId, 0, ConnModuleNameMax)
         IN {<<moduleName, <<>>>>}
            \cup {<<moduleName, IF Truthy(c.counts[j].ver)
                                THEN slice(c.counts[j].ver, 0, VersionMax)
                                ELSE <<>>>> : j \in 1..Len(c.counts)}
         : i \in 1..Len(r.connections.items)}

\* the ids that the identities a report names have in the store
ReportedRowIds(r) ==
  {knownModule[k] : k \in ReportedIdentities(r) \cap DOMAIN knownModule}

\* C28: a submission changes the daily buckets and all-time counts of the
\* modules it reports only: every surface module, connection module and
\* connection version that it does not name keeps its identity, its daily
\* buckets and its all-time count, and no row is added for it.
C28_UnreportedModulesKeepTheirCounts ==
  (Done(1) /\ pre[1].seq >= 1) =>
    /\ \A k \in DOMAIN surfaceDailyUsage \cup DOMAIN pre[1].surfaceDailyUsage :
         k[3] \notin ReportedSurfaceModules(req[1]) =>
           RowOf(surfaceDailyUsage, k) = RowOf(pre[1].surfaceDailyUsage, k)
    /\ \A k \in DOMAIN knownModule \cup DOMAIN pre[1].knownModule :
         k \notin ReportedIdentities(req[1]) =>
           RowOf(knownModule, k) = RowOf(pre[1].knownModule, k)
    /\ \A k \in DOMAIN moduleDailyUsage \cup DOMAIN pre[1].moduleDailyUsage :
         k[3] \notin ReportedRowIds(req[1]) =>
           RowOf(moduleDailyUsage, k) = RowOf(pre[1].moduleDailyUsage, k)
    /\ \A k \in DOMAIN moduleUserLastSeen \cup DOMAIN pre[1].moduleUserLastSeen :
         k[2] \notin ReportedRowIds(req[1]) =>
           RowOf(moduleUserLastSeen, k) = RowOf(pre[1].moduleUserLastSeen, k)

\* the second report names module x and not module y, which the first one
\* named, and raises the counts of x
C28_Witness ==
  /\ Done(1) /\ pre[1].seq = 2
  /\ <<<<"y">>, V1>> \in DOMAIN pre[1].knownModule
  /\ <<<<"y">>, V1>> \notin ReportedIdentities(req[1])
  /\ <<ModX, V1>> \in ReportedIdentities(req[1])
  /\ moduleDailyUsage # pre[1].moduleDailyUsage
  /\ moduleUserLastSeen # pre[1].moduleUserLastSeen

\* the second report names another surface module than the first
C28_WitnessSurfaces ==
  /\ Done(1) /\ pre[1].seq = 2
  /\ ReportedSurfaceModules(req[1]) # {}
  /\ \E k \in DOMAIN pre[1].surfaceDailyUsage : k[3] \notin ReportedSurfaceModules(req[1])
  /\ surfaceDailyUsage # pre[1].surfaceDailyUsage

\* number of surfaces of module m in a list
SurfaceCount(surfaces, m) ==
  Cardinality({i \in 1..Len(surfaces) : surfaces[i].moduleId = m})

\* the max count of a last-seen row; 0 when the row or the column is missing
MaxCountOf(table, key) ==
  IF key \in DOMAIN table /\ "max_count" \in DOMAIN table[key]
  THEN table[key].max_count ELSE 0

\* C25: after a successful writeSurfaces every reported (moduleId, serial) has
\* a last-seen row whose last-seen time is the submission time, whose max
\* count is the larger of the row's previous max count and the number of
\* surfaces of that module in the submission, and whose description is the
\* canonical translation of the reported description.
C25_LastSeenRowOfEverySurface ==
  (pre[1].seq >= 1 /\ pc[1].daily = "done" /\ pc[1].lastSeen = "done"
     /\ daily[1].ok /\ lastSeen[1].ok) =>
    \A i \in 1..Len(req[1].surfaces.items) :
      LET surface == req[1].surfaces.items[i]
          key == <<req[1].id, slice(surface.moduleId, 0, ModuleNameMax),
                   slice(surface.id, 0, SerialMax)>>
      IN /\ key \in DOMAIN surfaceUserLastSeen
         /\ surfaceUserLastSeen[key].last_seen = lastSeen[1].now
         /\ surfaceUserLastSeen[key].surface_description
              = slice(translateDescription(surface.description), 0, DescriptionMax)
         /\ "max_count" \in DOMAIN surfaceUserLastSeen[key]
         /\ surfaceUserLastSeen[key].max_count
              = Max(MaxCountOf(pre[1].surfaceUserLastSeen, key),
                    SurfaceCount(req[1].surfaces.items, surface.moduleId))

-----------------------------------------------------------------------------
(* Claims about requests in progress at the same time (SpecConcurrent) *)

\* the two requests are the only ones since the store was as in pre[first]
Pair(first, second) ==
  /\ Done(first) /\ Done(second)
  /\ pre[first].seq >= 1 /\ pre[second].seq = pre[first].seq + 1
  /\ pre[first].quiet
  /\ req[first].id = req[second].id
  /\ daily[first].utcDay = daily[second].utcDay

DailyOf(table, utcDay, user, m) ==
  IF <<utcDay, user, m>> \in DOMAIN table THEN table[<<utcDay, user, m>>] ELSE 0

Max3(a, b, c) == Max(Max(a, b), c)

\* C2: two submissions of one subject and UTC day that report different
\* counts of one module leave, in every interleaving of their reads and
\* writes, the larger of the previous value and the two counts in the module's
\* daily bucket and all-time count.
C2_ConcurrentSubmissionsKeepMax ==
  \A first, second \in Procs :
    Pair(first, second) =>
      LET r1 == req[first]
          r2 == req[second]
          utcDay == daily[first].utcDay
      IN /\ \A m \in {r1.surfaces.items[i].moduleId : i \in 1..Len(r1.surfaces.items)} :
              LET c1 == SurfaceCount(r1.surfaces.items, m)
                  c2 == SurfaceCount(r2.surfaces.items, m)
                  key == slice(m, 0, ModuleNameMax)
              IN (c2 > 0 /\ c1 # c2) =>
                   DailyOf(surfaceDailyUsage, utcDay, r1.id, key)
                     = Max3(DailyOf(pre[first].surfaceDailyUsage, utcDay, r1.id, key),
                            c1, c2)
         /\ \A i \in 1..Len(r1.connections.items), j \in 1..Len(r2.connections.items) :
              LET a == r1.connections.items[i]
                  b == r2.connections.items[j]
              IN (Len(r1.connections.items) = 1 /\ Len(r2.connections.items) = 1
                  /\ a.moduleId = b.moduleId
                  /\ Len(a.counts) = 1 /\ Len(b.counts) = 1
                  /\ a.counts[1].ver = b.counts[1].ver
                  /\ a.counts[1].cnt # b.counts[1].cnt) =>
                   LET name == slice(a.moduleId, 0, ConnModuleNameMax)
                       v == slice(a.counts[1].ver, 0, VersionMax)
                       id == knownModule[<<name, v>>]
                       before == IF <<name, v>> \in DOMAIN pre[first].knownModule
                                 THEN DailyOf(pre[first].moduleDailyUsage, utcDay, r1.id,
                                              pre[first].knownModule[<<name, v>>])
                                 ELSE 0
                   IN /\ DailyOf(moduleDailyUsage, utcDay, r1.id, id)
                           = Max3(before, a.counts[1].cnt, b.counts[1].cnt)
                      /\ AllTimeOf(knownModule, moduleUserLastSeen, r1.id, name, v)
                           = Max3(AllTimeOf(pre[first].knownModule,
                                            pre[first].moduleUserLastSeen,
                                            r1.id, name, v),
                                  a.counts[1].cnt, b.counts[1].cnt)

\* C4: a report delivered twice, the two deliveries processed in any
\* interleaving, leaves the daily buckets and all-time counts that one
\* delivery alone leaves.
C4_DuplicateDeliveryIsOneDelivery ==
  \A first, second \in Procs :
    (Pair(first, second) /\ req[first] = req[second]) =>
      LET once == Once(pre[first], req[first], conn[first].now)
      IN /\ surfaceDailyUsage = once.surfaceDailyUsage
         /\ moduleDailyUsage = once.moduleDailyUsage
         /\ AllTimeCounts(moduleUserLastSeen) = AllTimeCounts(once.moduleUserLastSeen)

\* the requests that are working on a connection record or have returned after
\* one: their moduleRowIds is the cache of that record
InRecord(p) ==
  /\ pc[p].conn \in {"createSum", "transaction", "done"}
  /\ Len(req[p].connections.items) > 0
  /\ conn[p].i >= 1

\* the key of the identity row of the cache entry version of request p
IdentityKey(p, version) ==
  <<CurrentModuleName(p), IF Truthy(version) THEN version ELSE <<>>>>

\* C27: when requests get or create the identity of the same (moduleId,
\* version) at the same time, in every interleaving of their cache lookups
\* and upserts there is one identity row for it, with a row id of its own, and
\* every request holds that row id for its count merges; every count row is
\* stored under the row id of an identity.
C27_OneIdentityRowForAll ==
  /\ \A p \in Procs :
       InRecord(p) =>
         /\ \A version \in DOMAIN conn[p].moduleRowIds :
              /\ IdentityKey(p, version) \in DOMAIN knownModule
              /\ conn[p].moduleRowIds[version] = knownModule[IdentityKey(p, version)]
         /\ pc[p].conn \in {"transaction", "done"} =>
              /\ IdentityKey(p, NULL) \in DOMAIN knownModule
              /\ conn[p].sumModuleRowId = knownModule[IdentityKey(p, NULL)]
  /\ \A k1, k2 \in DOMAIN knownModule :
       knownModule[k1] = knownModule[k2] => k1 = k2
  /\ \A k \in DOMAIN moduleDailyUsage :
       \E key \in DOMAIN knownModule : knownModule[key] = k[3]
  /\ \A k \in DOMAIN moduleUserLastSeen :
       \E key \in DOMAIN knownModule : knownModule[key] = k[2]

\* both requests looked the module up before either created its identities,
\* so both made the upserts of the all-versions and of the version identity
\* (as many store calls as the request that created them), and both have
\* merged their counts
C27_Witness ==
  /\ Done(1) /\ Done(2)
  /\ pre[1].knownModule = EmptyTable /\ pre[2].knownModule = EmptyTable
  /\ Len(req[1].connections.items) = 1 /\ Len(req[2].connections.items) = 1
  /\ dbCalls[1].connections > 0
  /\ dbCalls[1].connections = dbCalls[2].connections
  /\ CurrentModuleName(1) = CurrentModuleName(2)
  /\ conn[1].moduleRowIds = conn[2].moduleRowIds
  /\ Cardinality(DOMAIN conn[1].moduleRowIds) = 2
  /\ Cardinality(DOMAIN knownModule) = 2
  /\ Cardinality(DOMAIN moduleDailyUsage) = 2

-----------------------------------------------------------------------------
(* semver, as used by the advisor and the release tracker *)

DigitChars == {"0", "1", "2", "3", "4", "5", "6", "7", "8", "9"}
DigitValue ==
  "0" :> 0 @@ "1" :> 1 @@ "2" :> 2 @@ "3" :> 3 @@ "4" :> 4 @@
  "5" :> 5 @@ "6" :> 6 @@ "7" :> 7 @@ "8" :> 8 @@ "9" :> 9
Letters ==
  {"a", "b", "c", "d", "e", "f", "g", "h", "i", "j", "k", "l", "m", "n", "o", "p",
   "q", "r", "s", "t", "u", "v", "w", "x", "y", "z",
   "A", "B", "C", "D", "E", "F", "G", "H", "I", "J", "K", "L", "M", "N", "O", "P",
   "Q", "R", "S", "T", "U", "V", "W", "X", "Y", "Z"}

\* [0-9A-Za-z-]
IdentifierChars == DigitChars \cup Letters \cup {"-"}

\* +digits
RECURSIVE Number(_)
Number(digits) ==
  IF digits = <<>> THEN 0
  ELSE 10 * Number(SubSeq(digits, 1, Len(digits) - 1))
       + DigitValue[digits[Len(digits)]]

\* length of the run of digits at the start of s
RECURSIVE DigitRun(_)
DigitRun(s) ==
  IF s # <<>> /\ Head(s) \in DigitChars THEN 1 + DigitRun(Tail(s)) ELSE 0

Drop(s, n) == SubSeq(s, n + 1, Len(s))

\* String.prototype.trim, for the space character
RECURSIVE TrimStart(_)
TrimStart(s) == IF s # <<>> /\ Head(s) = " " THEN TrimStart(Tail(s)) ELSE s
RECURSIVE TrimEnd(_)
TrimEnd(s) ==
  IF s # <<>> /\ s[Len(s)] = " " THEN TrimEnd(SubSeq(s, 1, Len(s) - 1)) ELSE s
trim(s) == TrimEnd(TrimStart(s))

\* [v=\s]*
RECURSIVE SkipLoosePrefix(_)
SkipLoosePrefix(s) ==
  IF s # <<>> /\ Head(s) \in {"v", "=", " "} THEN SkipLoosePrefix(Tail(s)) ELSE s

\* identifier(\.identifier)* with identifier = [0-9A-Za-z-]+ ; in loose mode a
\* prerelease identifier (\d+ or \d*[a-zA-Z-][a-zA-Z0-9-]*) is the same set
IdentifierList(s) ==
  /\ s # <<>>
  /\ \A i \in 1..Len(s) : s[i] \in IdentifierChars \cup {"."}
  /\ s[1] # "." /\ s[Len(s)] # "."
  /\ \A i \in 1..(Len(s) - 1) : ~(s[i] = "." /\ s[i + 1] = ".")

\* what follows the patch number: (-?prerelease)?(\+build)?$ ; the captured
\* prerelease and build, or no match
LooseTail(s) ==
  LET plus == indexOf(s, "+")
      head == IF plus = -1 THEN s ELSE slice(s, 0, plus)
      build == IF plus = -1 THEN <<>> ELSE Drop(s, plus + 1)
      buildOk == plus = -1 \/ IdentifierList(build)
  IN IF ~buildOk THEN [match |-> FALSE, prerelease |-> <<>>, build |-> <<>>]
     ELSE IF head = <<>> THEN [match |-> TRUE, prerelease |-> <<>>, build |-> build]
     ELSE IF Head(head) = "-" /\ IdentifierList(Tail(head))
          THEN [match |-> TRUE, prerelease |-> Tail(head), build |-> build]
     ELSE IF IdentifierList(head)
          THEN [match |-> TRUE, prerelease |-> head, build |-> build]
     ELSE [match |-> FALSE, prerelease |-> <<>>, build |-> <<>>]

NoParse == [ok |-> FALSE, major |-> 0, minor |-> 0, patch |-> 0,
            prerelease |-> <<>>, build |-> <<>>]

\* length of the run of digits after a ".", 0 when s does not start with "."
DotNumber(s) == IF s # <<>> /\ Head(s) = "." THEN DigitRun(Tail(s)) ELSE 0

\* the match with k digits of patch
LooseResult(major, minor, s3, k) ==
  [ok |-> TRUE,
   major |-> Number(major),
   minor |-> Number(minor),
   patch |-> Number(SubSeq(s3, 1, k)),
   prerelease |-> LooseTail(Drop(s3, k)).prerelease,
   build |-> LooseTail(Drop(s3, k)).build]

\* (\d+) for the patch is greedy and gives digits back until the rest matches
LoosePatch(major, minor, s3, fits) ==
  IF major = <<>> \/ minor = <<>> \/ fits = {} THEN NoParse
  ELSE LooseResult(major, minor, s3, CHOOSE x \in fits : \A y \in fits : y <= x)

LooseMinor(major, minor, s2) ==
  LoosePatch(major, minor, Drop(s2, 1),
             {k \in 1..DotNumber(s2) : LooseTail(Drop(s2, k + 1)).match})

LooseMajor(major, s1) ==
  LooseMinor(major, SubSeq(s1, 2, DotNumber(s1) + 1), Drop(s1, DotNumber(s1) + 1))

LooseMatch(s0) == LooseMajor(SubSeq(s0, 1, DigitRun(s0)), Drop(s0, DigitRun(s0)))

\* semver.parse(version, {loose: true}): the LOOSE pattern
\* ^[v=\s]*(\d+)\.(\d+)\.(\d+)(?:-?(prerelease))?(?:\+(build))?$ on the
\* trimmed string
semverParse(version) == LooseMatch(SkipLoosePrefix(trim(version)))

\* SemVer.compareMain
compareMain(a, b) ==
  IF a.major # b.major THEN (IF a.major < b.major THEN -1 ELSE 1)
  ELSE IF a.minor # b.minor THEN (IF a.minor < b.minor THEN -1 ELSE 1)
  ELSE IF a.patch # b.patch THEN (IF a.patch < b.patch THEN -1 ELSE 1)
  ELSE 0

\* SemVer.comparePre when b, a release of the snapshot, has no prerelease: a
\* version with a prerelease is lower than the same version without
comparePre(a, b) == IF a.prerelease # <<>> /\ b.prerelease = <<>> THEN -1 ELSE 0

\* semver.compare: build metadata is ignored
compare(a, b) == IF compareMain(a, b) # 0 THEN compareMain(a, b) ELSE comparePre(a, b)
lt(a, b) == compare(a, b) < 0
gt(a, b) == compare(a, b) > 0
eq(a, b) == compare(a, b) = 0

Version(major, minor, patch) ==
  [major |-> major, minor |-> minor, patch |-> patch,
   prerelease |-> <<>>, build |-> <<>>]

\* SemVer.format: the field version
RECURSIVE toString(_)
toString(n) ==
  LET digit == CHOOSE c \in DigitChars : DigitValue[c] = n % 10
  IN IF n < 10 THEN <<digit>> ELSE toString(n \div 10) \o <<digit>>

format(v) ==
  toString(v.major) \o <<".">> \o toString(v.minor) \o <<".">> \o toString(v.patch)
  \o (IF v.prerelease = <<>> THEN <<>> ELSE <<"-">> \o v.prerelease)

\* the SemVer object of a successful parse
SemVer(p) ==
  [major |-> p.major, minor |-> p.minor, patch |-> p.patch,
   prerelease |-> p.prerelease, build |-> p.build]

\* semver.coerce(version, {loose: true}): the first run of digits, with up to
\* two more runs after dots; missing parts are 0; null without a digit
RECURSIVE FirstDigit(_, _)
FirstDigit(s, i) ==
  IF i > Len(s) THEN 0
  ELSE IF s[i] \in DigitChars THEN i ELSE FirstDigit(s, i + 1)

CoercePatch(major, minor, s2) ==
  format(Version(major, minor,
                 IF DotNumber(s2) = 0 THEN 0
                 ELSE Number(SubSeq(s2, 2, DotNumber(s2) + 1))))

CoerceMinor(major, s1) ==
  IF DotNumber(s1) = 0 THEN format(Version(major, 0, 0))
  ELSE CoercePatch(major, Number(SubSeq(s1, 2, DotNumber(s1) + 1)),
                   Drop(s1, DotNumber(s1) + 1))

CoerceMajor(s0) == CoerceMinor(Number(SubSeq(s0, 1, DigitRun(s0))), Drop(s0, DigitRun(s0)))

coerce(version) ==
  IF FirstDigit(version, 1) = 0 THEN NULL
  ELSE CoerceMajor(Drop(version, FirstDigit(version, 1) - 1))

-----------------------------------------------------------------------------
(* The release tracker *)

\* 1000 * 60 * 60 milliseconds; the tracker's clock counts hours
OneHour == 1

PublishedAt(t) == [value |-> "date", time |-> t]

Release(tag_name, name, draft, prerelease, published_at) ==
  [tag_name |-> tag_name, name |-> name, draft |-> draft,
   prerelease |-> prerelease, published_at |-> published_at]

\* (r.tag_name || r.name || "").replace(/^v/, "")
Candidate(r) ==
  LET raw == IF Truthy(r.tag_name) THEN r.tag_name
             ELSE IF Truthy(r.name) THEN r.name ELSE <<>>
  IN IF raw # <<>> /\ Head(raw) = "v" THEN Tail(raw) ELSE raw

\* the releases the loop does not skip, up to the parse of the coerced version
Usable(r, dateNow) ==
  /\ ~r.draft
  /\ ~r.prerelease
  /\ r.published_at.value = "date"
  /\ ~(r.published_at.time > dateNow - OneHour)
  /\ coerce(Candidate(r)) # NULL
  /\ semverParse(coerce(Candidate(r))).ok

\* keep highest patch for this minor
KeepLatest(byMinor, parsed) == Upsert(byMinor, <<parsed.major, parsed.minor>>, parsed)
KeepHighest(byMinor, parsed) ==
  IF <<parsed.major, parsed.minor>> \notin DOMAIN byMinor
  THEN Upsert(byMinor, <<parsed.major, parsed.minor>>, parsed)
  ELSE IF gt(parsed, byMinor[<<parsed.major, parsed.minor>>])
  THEN Upsert(byMinor, <<parsed.major, parsed.minor>>, parsed)
  ELSE byMinor

\* one turn of the loop over the registry's answer
AddRelease(byMinor, r, dateNow) ==
  IF ~Usable(r, dateNow) THEN byMinor
  ELSE KeepHighest(byMinor, SemVer(semverParse(coerce(Candidate(r)))))

\* byMinor after the first i releases
RECURSIVE ByMinor(_, _, _)
ByMinor(releases, i, dateNow) ==
  IF i = 0 THEN EmptyTable
  ELSE AddRelease(ByMinor(releases, i - 1, dateNow), releases[i], dateNow)

\* Array.from(byMinor.values()).sort((a, b) => semver.compare(b.sem, a.sem))
RECURSIVE SortDescending(_)
SortDescending(versions) ==
  IF versions = {} THEN <<>>
  ELSE LET highest == CHOOSE v \in versions : \A w \in versions : compare(v, w) >= 0
       IN <<highest>> \o SortDescending(versions \ {highest})

\* the first entry after the highest with another major.minor, or 0
NextOtherMinor(sorted) ==
  LET others == {i \in 2..Len(sorted) :
                   \/ sorted[i].major # sorted[1].major
                   \/ sorted[i].minor # sorted[1].minor}
  IN IF others = {} THEN 0 ELSE CHOOSE i \in others : \A j \in others : i <= j

\* the end of fetchReleases, from the sorted array on: the snapshot it
\* returns, or the error it throws ("TypeError" is the read of sorted[1].sem
\* when sorted has one entry)
PickStable(sorted, other) ==
  IF Len(sorted) = 0
  THEN [threw |-> "No suitable stable releases found", value |-> NoReleases]
  ELSE IF other = 0 /\ Len(sorted) < 2
  THEN [threw |-> "TypeError", value |-> NoReleases]
  ELSE [threw |-> "",
        value |-> [available |-> TRUE,
                   currentStable |-> sorted[1],
                   oldStable |-> sorted[IF other = 0 THEN 2 ELSE other]]]

Values(byMinor) == {byMinor[k] : k \in DOMAIN byMinor}
PickFrom(sorted) == PickStable(sorted, NextOtherMinor(sorted))

\* fetchReleases, from the registry's answer on
fetchReleases(releases, dateNow) ==
  PickFrom(SortDescending(Values(ByMinor(releases, Len(releases), dateNow))))

-----------------------------------------------------------------------------
(* The version advisor *)

AncientMajor == 3
HashMin == 7
HashMax == 40

HexChars == DigitChars \cup {"a", "b", "c", "d", "e", "f", "A", "B", "C", "D", "E", "F"}

\* String.prototype.lastIndexOf(c) for a one-character needle; -1 when absent
lastIndexOf(s, c) ==
  IF \E i \in 1..Len(s) : s[i] = c
  THEN (CHOOSE i \in 1..Len(s) : s[i] = c /\ \A j \in (i + 1)..Len(s) : s[j] # c) - 1
  ELSE -1

NoMatch == [match |-> FALSE, kind |-> <<>>]

\* s after lead and a run of digits; null when s does not start with them
SkipNumber(s, lead) ==
  IF s = NULL THEN NULL
  ELSE IF lead # "" /\ (s = <<>> \/ Head(s) # lead) THEN NULL
  ELSE IF DigitRun(IF lead = "" THEN s ELSE Tail(s)) = 0 THEN NULL
  ELSE Drop(s, DigitRun(IF lead = "" THEN s ELSE Tail(s)) + (IF lead = "" THEN 0 ELSE 1))

\* (.+)-([0-9a-fA-F]{7,40})$ : the hash has no "-", so the greedy (.+) ends
\* at the last "-"
KindAndHash(rest, dash) ==
  IF dash < 1 THEN NoMatch
  ELSE IF Len(rest) - dash - 1 < HashMin \/ Len(rest) - dash - 1 > HashMax THEN NoMatch
  ELSE IF \E i \in (dash + 2)..Len(rest) : rest[i] \notin HexChars THEN NoMatch
  ELSE [match |-> TRUE, kind |-> slice(rest, 0, dash)]

AfterBuildNumber(s4) ==
  IF s4 = NULL \/ s4 = <<>> THEN NoMatch
  ELSE IF Head(s4) # "-" THEN NoMatch
  ELSE KindAndHash(Tail(s4), lastIndexOf(Tail(s4), "-"))

\* ^v?
OptionalV(s) == IF s # <<>> /\ Head(s) = "v" THEN Tail(s) ELSE s

\* appBuild.match(/^v?(\d+)\.(\d+)\.(\d+)\+(\d+)-(.+)-([0-9a-fA-F]{7,40})$/):
\* whether it matches, and group 5
knownBuildMatch(appBuild) ==
  AfterBuildNumber(
    SkipNumber(SkipNumber(SkipNumber(SkipNumber(OptionalV(appBuild), ""), "."), "."), "+"))

Stable == <<"s", "t", "a", "b", "l", "e">>
Beta == <<"b", "e", "t", "a">>

\* the messages, as the pieces of their template literals
InvalidVersionMessage == <<"Unable to check updates: Invalid version format">>
AncientMessage ==
  <<"This is a very old version of Companion. Companion has improved a lot, we strongly recommend updating">>
UnknownFormatMessage == <<"Unable to check updates: Unknown build format">>
ObsoleteMessage(version) ==
  <<"This version of Companion is outdated and no longer supported. Please update to the latest version v">>
  \o version \o <<".">>
NewStableMessage(version) ==
  <<"A new stable version (v">> \o version \o <<") is available.">>
BetaMessage == <<"Remember, this is a beta version!">>
ExperimentalMessage ==
  <<"EXPERIMENTAL: Thank you for testing these experimental features!">>

AncientLink == "https://bitfocus.io/companion?inapp_ancient"
ObsoleteLink == "https://bitfocus.io/companion?inapp_obsolete"
StableLink == "https://bitfocus.io/companion?inapp_stable"
BetaLink == "https://bitfocus.io/companion?inapp_beta"
ExperimentalLink == "https://bitfocus.io/companion?inapp_beyond"

Answer(ok, message, link) == [ok |-> ok, message |-> message, link |-> link]

\* { ok: true, message: "Unable to check updates: Invalid version format" }
InvalidVersionAnswerRetry == Answer(FALSE, InvalidVersionMessage, NoLink)
InvalidVersionAnswer == Answer(TRUE, InvalidVersionMessage, NoLink)

\* { ok: false, message: "" }
TryLaterAnswerOk == Answer(TRUE, <<>>, NoLink)
TryLaterAnswer == Answer(FALSE, <<>>, NoLink)

\* semver.eq(parsedBuild, latestReleases.currentStable, {loose: true})
IsCurrentStableOrBehind(parsedBuild, releases) == ~gt(parsedBuild, releases.currentStable)
IsCurrentStable(parsedBuild, releases) == eq(parsedBuild, releases.currentStable)

\* { ok: true, message: `A new stable version (v${currentStable.version}) is available.`, link }
NewStableAnswer(releases) ==
  Answer(TRUE, NewStableMessage(format(releases.currentStable)), StableLink)

\* { ok: true, message: "" }
UpToDateAnswer == Answer(TRUE, <<>>, NoLink)

\* on the old stable branch, behind oldStable
BehindOldStable(releases) == NewStableAnswer(releases)

\* on the old stable branch, at oldStable or after it
AtOldStableIsUpToDate(releases) == UpToDateAnswer
AtOldStable(releases) == NewStableAnswer(releases)

\* on the current stable branch, behind currentStable
BehindCurrentStable(releases) == NewStableAnswer(releases)

\* any other stable build: another minor branch, or ahead of currentStable
DefaultStableIsUpToDate(releases) == UpToDateAnswer
DefaultStable(releases) == NewStableAnswer(releases)

\* the stable branch of prepareCompanionResponse
StableAnswer(parsedBuild, releases) ==
  IF /\ parsedBuild.major = releases.oldStable.major
     /\ parsedBuild.minor = releases.oldStable.minor
  THEN IF lt(parsedBuild, releases.oldStable)
       THEN BehindOldStable(releases)
       ELSE AtOldStable(releases)
  ELSE IF /\ parsedBuild.major = releases.currentStable.major
          /\ parsedBuild.minor = releases.currentStable.minor
          /\ IsCurrentStable(parsedBuild, releases)
  THEN UpToDateAnswer
  ELSE IF /\ parsedBuild.major = releases.currentStable.major
          /\ parsedBuild.minor = releases.currentStable.minor
          /\ lt(parsedBuild, releases.currentStable)
  THEN BehindCurrentStable(releases)
  ELSE DefaultStable(releases)

\* parsedBuild.major < 3
IsAncientBelowTwo(parsedBuild) == parsedBuild.major < AncientMajor - 1
IsAncient(parsedBuild) == parsedBuild.major < AncientMajor

\* !latestReleases
SnapshotMissing(releases) == ~releases.available

\* `${latestReleases.oldStable.major}.${latestReleases.oldStable.minor}.0`
oldStableMinorBranchAtPatch(releases) == format(releases.oldStable)
oldStableMinorBranch(releases) ==
  toString(releases.oldStable.major) \o <<".">>
  \o toString(releases.oldStable.minor) \o <<".", "0">>

\* { ok: true, message: "Remember, this is a beta version!", link }
BetaAnswerStableLink == Answer(TRUE, BetaMessage, StableLink)
BetaAnswer == Answer(TRUE, BetaMessage, BetaLink)

\* prepareCompanionResponse after the parse and the match of the build format
\* the snapshot looked at before the build format
RespondSnapshotFirst(parsedBuild, known, releases) ==
  IF ~parsedBuild.ok THEN InvalidVersionAnswer
  ELSE IF IsAncient(parsedBuild) THEN Answer(TRUE, AncientMessage, AncientLink)
  ELSE IF SnapshotMissing(releases) THEN TryLaterAnswer
  ELSE IF ~known.match THEN Answer(TRUE, UnknownFormatMessage, NoLink)
  ELSE IF lt(parsedBuild, semverParse(oldStableMinorBranch(releases)))
  THEN Answer(TRUE, ObsoleteMessage(format(releases.currentStable)), ObsoleteLink)
  ELSE IF known.kind = Stable THEN StableAnswer(parsedBuild, releases)
  ELSE IF known.kind = Beta THEN BetaAnswer
  ELSE Answer(TRUE, ExperimentalMessage, ExperimentalLink)

Respond(parsedBuild, known, releases) ==
  IF ~parsedBuild.ok THEN InvalidVersionAnswer
  ELSE IF IsAncient(parsedBuild) THEN Answer(TRUE, AncientMessage, AncientLink)
  ELSE IF ~known.match THEN Answer(TRUE, UnknownFormatMessage, NoLink)
  ELSE IF SnapshotMissing(releases) THEN TryLaterAnswer
  ELSE IF lt(parsedBuild, semverParse(oldStableMinorBranch(releases)))
  THEN Answer(TRUE, ObsoleteMessage(format(releases.currentStable)), ObsoleteLink)
  ELSE IF known.kind = Stable THEN StableAnswer(parsedBuild, releases)
  ELSE IF known.kind = Beta THEN BetaAnswer
  ELSE Answer(TRUE, ExperimentalMessage, ExperimentalLink)

prepareCompanionResponse(appBuild, releases) ==
  Respond(semverParse(appBuild), knownBuildMatch(appBuild), releases)

-----------------------------------------------------------------------------
(* Builds and registry answers *)

Versions ==
  {Version(major, minor, patch) :
     major \in {AncientMajor - 1, AncientMajor}, minor \in 0..MaxMinor, patch \in 0..MaxPatch}

Experimental == <<"e", "x", "p", "e", "r", "i", "m", "e", "n", "t", "a", "l">>
BuildNumber == <<"7", "0", "0", "1">>
Hash == <<"e", "e", "7", "c", "3", "d", "a", "a">>

\* major.minor.patch+buildNumber-kind-hash
Build(v, number, kind, hash) ==
  format(v) \o <<"+">> \o number \o <<"-">> \o kind \o <<"-">> \o hash

\* a stable and a beta build of every version, an experimental build of the
\* first of every minor branch
WellFormedBuilds ==
  {Build(v, BuildNumber, kind, Hash) : v \in Versions, kind \in {Stable, Beta}}
  \cup {Build(v, BuildNumber, Experimental, Hash) : v \in {w \in Versions : w.patch = 0}}

NotAVersion == <<"n", "o", "t", "-", "a", "-", "v", "e", "r", "s", "i", "o", "n">>
BareVersion == <<"3", ".", "1", ".", "1">>
ScenarioStable == <<"3", ".", "3", ".", "1", "+", "7", "0", "0", "1", "-", "s", "t", "a", "b", "l", "e", "-", "e", "e", "7", "c", "3", "d", "a", "a">>

OtherBuilds ==
  {NotAVersion, BareVersion, ScenarioStable,
   \* the empty string
   <<>>,
   \* a bare ancient version
   <<"2", ".", "4", ".", "0">>,
   \* an ancient stable build
   <<"2", ".", "4", ".", "0", "+", "5", "0", "0", "-", "s", "t", "a", "b", "l", "e", "-", "a", "b", "c", "1", "2", "3", "4">>,
   \* a leading space
   <<" ", "3", ".", "1", ".", "1", "+", "7", "0", "0", "1", "-", "s", "t", "a", "b", "l", "e", "-", "e", "e", "7", "c", "3", "d", "a", "a">>,
   \* a leading v
   <<"v", "3", ".", "1", ".", "1", "+", "7", "0", "0", "1", "-", "s", "t", "a", "b", "l", "e", "-", "e", "e", "7", "c", "3", "d", "a", "a">>,
   \* a leading =
   <<"=", "3", ".", "1", ".", "1", "+", "7", "0", "0", "1", "-", "s", "t", "a", "b", "l", "e", "-", "e", "e", "7", "c", "3", "d", "a", "a">>,
   \* a hash of five characters
   <<"3", ".", "1", ".", "1", "+", "7", "0", "0", "1", "-", "s", "t", "a", "b", "l", "e", "-", "a", "b", "c", "1", "2">>,
   \* a hash that is not hexadecimal
   <<"3", ".", "1", ".", "1", "+", "7", "0", "0", "1", "-", "s", "t", "a", "b", "l", "e", "-", "x", "y", "z", "1", "2", "3", "4">>,
   \* two hashes: the kind holds a dash
   <<"3", ".", "1", ".", "1", "+", "7", "0", "0", "1", "-", "s", "t", "a", "b", "l", "e", "-", "a", "b", "c", "d", "e", "f", "1", "-", "a", "b", "c", "d", "e", "f", "2">>,
   \* a dash where the plus belongs
   <<"3", ".", "1", ".", "1", "-", "7", "0", "0", "1", "-", "s", "t", "a", "b", "l", "e", "-", "e", "e", "7", "c", "3", "d", "a", "a">>,
   \* no patch number
   <<"3", ".", "1", "+", "7", "0", "0", "1", "-", "s", "t", "a", "b", "l", "e", "-", "e", "e", "7", "c", "3", "d", "a", "a">>,
   \* an underscore in the build metadata
   <<"3", ".", "1", ".", "1", "+", "7", "0", "0", "1", "-", "s", "t", "_", "b", "l", "e", "-", "e", "e", "7", "c", "3", "d", "a", "a">>,
   \* another build number and an upper-case hash
   <<"3", ".", "2", ".", "1", "+", "1", "-", "s", "t", "a", "b", "l", "e", "-", "A", "B", "C", "D", "E", "F", "0", "1", "2", "3">>,
   \* a stable build of a major that no release has
   <<"4", ".", "0", ".", "0", "+", "7", "0", "0", "1", "-", "s", "t", "a", "b", "l", "e", "-", "e", "e", "7", "c", "3", "d", "a", "a">>,
   \* a beta build ahead of the stable branch
   <<"3", ".", "3", ".", "0", "+", "6", "9", "9", "0", "-", "b", "e", "t", "a", "-", "1", "2", "3", "4", "5", "6", "7", "a", "b">>}

Builds == WellFormedBuilds \cup OtherBuilds

\* the requests of the model: any build for Companion, one for another
\* application; the legacy endpoint is called with the builds of OtherBuilds
Requests ==
  {[name |-> "companion", build |-> b] : b \in Builds}
  \cup {[name |-> "other", build |-> BareVersion]}

\* a release of the registry: published long ago unless said otherwise
Tag(v) == <<"v">> \o format(v)
Published(v) == Release(Tag(v), <<>>, FALSE, FALSE, PublishedAt(0 - 2 * OneHour))

\* the registry once v is the newest release: v and every lower version
RECURSIVE ReleasesUpTo(_)
ReleasesUpTo(versions) ==
  IF versions = {} THEN <<>>
  ELSE LET highest == CHOOSE v \in versions : \A w \in versions : compare(v, w) >= 0
       IN <<Published(highest)>> \o ReleasesUpTo(versions \ {highest})

RegistryAt(v) == ReleasesUpTo({w \in Versions : compare(w, v) <= 0})

Listed(data) == [ok |-> TRUE, data |-> data]

RegistryAnswers ==
  {[ok |-> FALSE, data |-> <<>>], Listed(<<>>)}
  \cup {Listed(RegistryAt(v)) : v \in {w \in Versions : ~IsAncient(w) /\ w.patch = MaxPatch}}
  \cup {\* the newest within the hour, one exactly an hour old, a draft, a prerelease
        Listed(<<Release(Tag(Version(3, 2, 1)), <<>>, FALSE, FALSE, PublishedAt(0)),
                 Release(Tag(Version(3, 2, 0)), <<>>, FALSE, FALSE, PublishedAt(0 - OneHour)),
                 Release(Tag(Version(3, 1, 1)), <<>>, TRUE, FALSE, PublishedAt(0 - 2 * OneHour)),
                 Release(Tag(Version(3, 1, 0)), <<>>, FALSE, TRUE, PublishedAt(0 - 2 * OneHour)),
                 Published(Version(3, 0, 1))>>),
        \* not in order
        Listed(<<Published(Version(3, 0, 0)), Published(Version(3, 1, 1)), Published(Version(3, 1, 0))>>),
        \* one minor branch only
        Listed(<<Published(Version(3, 2, 1)), Published(Version(3, 2, 0))>>),
        \* nothing usable
        Listed(<<Release(Tag(Version(3, 2, 1)), <<>>, TRUE, FALSE, PublishedAt(0 - 2 * OneHour)),
                 Release(Tag(Version(3, 2, 0)), <<>>, FALSE, FALSE, [value |-> "invalid", time |-> 0]),
                 Release(Tag(Version(3, 1, 1)), <<>>, FALSE, FALSE, [value |-> "null", time |-> 0]),
                 Release(Stable, <<>>, FALSE, FALSE, PublishedAt(0 - 2 * OneHour))>>),
        \* the name when there is no tag; versions that need coercion
        Listed(<<Release(<<>>, <<"v", "3", ".", "1">>, FALSE, FALSE, PublishedAt(0 - 2 * OneHour)),
                 Release(<<"v", "3", ".", "0", ".", "1", "-", "r", "c", ".", "1">>, <<>>, FALSE, FALSE,
                         PublishedAt(0 - 2 * OneHour))>>),
        Listed(<<Published(Version(3, 3, 1)), Published(Version(3, 2, 9))>>)}

-----------------------------------------------------------------------------
(* Refreshes and version checks *)

usage == <<store, now, locals>>

\* fetchReleases for every answer of the registry and every time of the clock
Fetched ==
  [answer \in {a \in RegistryAnswers : a.ok}, dateNow \in 0..MaxTime |->
     fetchReleases(answer.data, dateNow)]

\* the snapshots a refresh can publish, and null
Snapshots ==
  {NoReleases} \cup {Fetched[x].value : x \in {y \in DOMAIN Fetched : Fetched[y].threw = ""}}

\* prepareCompanionResponse for every build and every snapshot
Advice ==
  [appBuild \in Builds, releases \in Snapshots |->
     prepareCompanionResponse(appBuild, releases)]

\* the first refresh is awaited before the routes are registered
Serving == refreshes >= 1 /\ 1 \notin fetching

\* the initial call, then the timer's: doUpdateLatestReleases calls
\* fetchReleases, which awaits the registry
StartRefresh ==
  /\ refreshes < MaxRefreshes
  /\ refreshes' = refreshes + 1
  /\ fetching' = fetching \cup {refreshes + 1}
  /\ UNCHANGED <<usage, latestReleases, userTable, request, response>>

\* what doUpdateLatestReleases leaves in latestReleases: the snapshot
\* fetchReleases returned, or what was there when it threw
PublishOrClear(releases, fetched) == fetched.value
Publish(releases, fetched) == IF fetched.threw = "" THEN fetched.value ELSE releases

\* a run whose registry call fails clears the snapshot
CompleteRefreshClearing(run, answer) ==
  /\ run \in fetching
  /\ fetching' = fetching \ {run}
  /\ latestReleases' =
       IF answer.ok THEN Publish(latestReleases, Fetched[answer, now])
       ELSE NoReleases
  /\ UNCHANGED <<usage, refreshes, userTable, request, response>>

\* the registry answers a run: the rest of fetchReleases, then .then or .catch
CompleteRefresh(run, answer) ==
  /\ run \in fetching
  /\ fetching' = fetching \ {run}
  /\ latestReleases' =
       IF answer.ok THEN Publish(latestReleases, Fetched[answer, now])
       ELSE latestReleases
  /\ UNCHANGED <<usage, refreshes, userTable, request, response>>

\* updateUserDb: prisma.user.upsert
updateUserDb(table, id, name, build) == Upsert(table, <<id, name>>, build)

Served(answer, releases) ==
  [ok |-> answer.ok, message |-> answer.message, link |-> answer.link,
   latestReleases |-> releases]

\* POST /updates
Updates(id, name, build) ==
  /\ Serving
  /\ userTable' = updateUserDb(userTable, id, name, build)
  /\ request' = [id |-> id, name |-> name, build |-> build]
  /\ response' =
       Served(IF name = "companion"
              THEN Advice[build, latestReleases]
              ELSE Answer(TRUE, <<>>, NoLink),
              latestReleases)
  /\ UNCHANGED <<usage, latestReleases, fetching, refreshes>>

\* POST /updates-old: app_name is "companion"
UpdatesOld(id, build) ==
  /\ Serving
  /\ userTable' = updateUserDb(userTable, id, "companion", build)
  /\ request' = [id |-> id, name |-> "companion", build |-> build]
  /\ response' = Served(Advice[build, latestReleases], latestReleases)
  /\ UNCHANGED <<usage, latestReleases, fetching, refreshes>>

NextAdvisor ==
  \/ StartRefresh
  \/ \E run \in 1..MaxRefreshes, answer \in RegistryAnswers : CompleteRefresh(run, answer)
  \/ \E id \in Users, r \in Requests : Updates(id, r.name, r.build)
  \/ \E id \in Users, build \in OtherBuilds : UpdatesOld(id, build)

SpecAdvisor == Init /\ [][NextAdvisor]_vars

-----------------------------------------------------------------------------
(* Properties of the version advisor *)

\* semver.parse and the build format, for every build of the model
Parsed == [appBuild \in Builds |-> semverParse(appBuild)]
Known == [appBuild \in Builds |-> knownBuildMatch(appBuild)]

\* the last check was answered by prepareCompanionResponse
CompanionChecked == request.name = "companion"
CheckedParse == Parsed[request.build]
CheckedFormat == Known[request.build]

\* C7: a build that parses with major < 3 gets the ancient-version message,
\* the ancient link and ok = true (no retry), whatever its channel, whether or
\* not it has the known build format, with or without a snapshot
C7_AncientBuildsGetAncientMessage ==
  (CompanionChecked /\ CheckedParse.ok /\ CheckedParse.major < 3)
    => /\ response.ok
       /\ response.message = AncientMessage
       /\ response.link = AncientLink

\* a beta build of major 2 in the known format, checked against a snapshot
C7_Witness ==
  /\ CompanionChecked
  /\ CheckedParse.ok /\ CheckedParse.major < 3
  /\ CheckedFormat.match /\ CheckedFormat.kind = Beta
  /\ response.latestReleases.available
  /\ response.message = AncientMessage

\* C8: a build that does not parse as a version gets ok = true (no retry), the
\* invalid-version message and no link, with or without a snapshot
C8_UnparsableBuildsGetInvalidVersion ==
  (CompanionChecked /\ ~CheckedParse.ok)
    => /\ response.ok
       /\ response.message = InvalidVersionMessage
       /\ response.link = NoLink

\* not-a-version checked while no refresh has succeeded
C8_Witness ==
  /\ CompanionChecked
  /\ request.build = NotAVersion
  /\ ~CheckedParse.ok
  /\ ~response.latestReleases.available
  /\ response.message = InvalidVersionMessage

\* C9: a build that parses, has major >= 3 and the known build format, checked
\* while there is no snapshot, gets ok = false (retry), an empty message and no
\* link, whatever its channel
C9_NoSnapshotMeansRetry ==
  (/\ CompanionChecked
   /\ CheckedParse.ok /\ CheckedParse.major >= 3
   /\ CheckedFormat.match
   /\ ~response.latestReleases.available)
    => /\ ~response.ok
       /\ response.message = <<>>
       /\ response.link = NoLink

\* an experimental build checked after the first refresh failed
C9_Witness ==
  /\ CompanionChecked
  /\ CheckedParse.ok /\ CheckedParse.major >= 3
  /\ CheckedFormat.match /\ CheckedFormat.kind = Experimental
  /\ ~response.latestReleases.available
  /\ ~response.ok

\* major.minor.patch of the checked build and of currentStable are the same
SameAsCurrentStable ==
  /\ CheckedParse.major = response.latestReleases.currentStable.major
  /\ CheckedParse.minor = response.latestReleases.currentStable.minor
  /\ CheckedParse.patch = response.latestReleases.currentStable.patch

\* the checked build is lower than oldStable.major.oldStable.minor.0
BelowOldStableFloor ==
  \/ CheckedParse.major < response.latestReleases.oldStable.major
  \/ /\ CheckedParse.major = response.latestReleases.oldStable.major
     /\ CheckedParse.minor < response.latestReleases.oldStable.minor

\* C10: with a snapshot, a stable build of major >= 3 in the known format gets
\* the empty message exactly when its major.minor.patch is currentStable's;
\* any other such build not below the old-stable floor gets the
\* new-stable message naming currentStable
C10_EmptyMessageIffCurrentStable ==
  (/\ CompanionChecked
   /\ CheckedParse.ok /\ CheckedParse.major >= 3
   /\ CheckedFormat.match /\ CheckedFormat.kind = Stable
   /\ response.latestReleases.available)
    => /\ (response.message = <<>>) <=> SameAsCurrentStable
       /\ (~SameAsCurrentStable /\ ~BelowOldStableFloor)
            => response.message
                 = NewStableMessage(format(response.latestReleases.currentStable))

\* 3.3.1+7001-stable-ee7c3daa with oldStable 3.2.9 and currentStable 3.3.1
C10_Witness ==
  /\ CompanionChecked
  /\ request.build = ScenarioStable
  /\ response.latestReleases.available
  /\ response.latestReleases.currentStable = Version(3, 3, 1)
  /\ response.latestReleases.oldStable = Version(3, 2, 9)
  /\ response.message = <<>>

\* major.minor of the checked build and of oldStable are the same
OnOldStableBranch ==
  /\ CheckedParse.major = response.latestReleases.oldStable.major
  /\ CheckedParse.minor = response.latestReleases.oldStable.minor

\* a stable build of major >= 3 in the known format, checked against a snapshot
StableChecked ==
  /\ CompanionChecked
  /\ CheckedParse.ok /\ CheckedParse.major >= 3
  /\ CheckedFormat.match /\ CheckedFormat.kind = Stable
  /\ response.latestReleases.available

\* C11: with a snapshot, a stable build on oldStable's minor branch gets the
\* new-stable message naming currentStable and the stable link, whether its
\* patch is behind oldStable's, equal to it or after it; never the empty message
C11_OldStableBranchGetsNewStable ==
  (StableChecked /\ OnOldStableBranch)
    => /\ response.ok
       /\ response.message
            = NewStableMessage(format(response.latestReleases.currentStable))
       /\ response.link = StableLink
       /\ response.message # <<>>

\* a stable build whose version is oldStable's
C11_Witness ==
  /\ StableChecked /\ OnOldStableBranch
  /\ CheckedParse.patch = response.latestReleases.oldStable.patch
  /\ response.link = StableLink

\* a stable build behind oldStable on its branch
C11_WitnessBehind ==
  /\ StableChecked /\ OnOldStableBranch
  /\ CheckedParse.patch < response.latestReleases.oldStable.patch
  /\ response.link = StableLink

\* (major, minor) of version a is lower than (major, minor) of version b
LowerBranch(a, b) ==
  \/ a.major < b.major
  \/ a.major = b.major /\ a.minor < b.minor

\* the checked build is strictly ahead of currentStable: a higher major, a
\* higher minor, or the same minor branch with a higher patch
AheadOfCurrentStable ==
  \/ LowerBranch(response.latestReleases.currentStable, CheckedParse)
  \/ /\ CheckedParse.major = response.latestReleases.currentStable.major
     /\ CheckedParse.minor = response.latestReleases.currentStable.minor
     /\ CheckedParse.patch > response.latestReleases.currentStable.patch

\* the checked build is on a minor branch between oldStable's and currentStable's
BetweenBranches ==
  /\ LowerBranch(response.latestReleases.oldStable, CheckedParse)
  /\ LowerBranch(CheckedParse, response.latestReleases.currentStable)

\* C12: with a snapshot, a stable build strictly ahead of currentStable, or on
\* a minor branch between oldStable's and currentStable's, gets the new-stable
\* message naming currentStable and never the empty message
C12_AheadOrBetweenGetsNewStable ==
  (StableChecked /\ (AheadOfCurrentStable \/ BetweenBranches))
    => /\ response.message
            = NewStableMessage(format(response.latestReleases.currentStable))
       /\ response.message # <<>>
       /\ response.link = StableLink

\* a stable build on currentStable's branch with a higher patch
C12_Witness ==
  /\ StableChecked
  /\ CheckedParse.major = response.latestReleases.currentStable.major
  /\ CheckedParse.minor = response.latestReleases.currentStable.minor
  /\ CheckedParse.patch > response.latestReleases.currentStable.patch
  /\ response.link = StableLink

\* a stable build of a higher major than currentStable's
C12_WitnessMajor ==
  /\ StableChecked
  /\ CheckedParse.major > response.latestReleases.currentStable.major
  /\ response.link = StableLink

\* a stable build between the two branches of the snapshot
C12_WitnessBetween ==
  /\ StableChecked /\ BetweenBranches
  /\ response.link = StableLink

\* a build of major >= 3 in the known format, checked against a snapshot
WellFormedChecked ==
  /\ CompanionChecked
  /\ CheckedParse.ok /\ CheckedParse.major >= 3
  /\ CheckedFormat.match
  /\ response.latestReleases.available

\* the answer is the obsolete one
ObsoleteAnswered ==
  \/ response.link = ObsoleteLink
  \/ /\ response.latestReleases.available
     /\ response.message = ObsoleteMessage(format(response.latestReleases.currentStable))

\* C13: with a snapshot, a build of major >= 3 in the known format that is
\* lower than oldStable.major.oldStable.minor.0 gets the obsolete message and
\* the obsolete link, whatever its channel; no build at or above that floor
\* gets the obsolete message
C13_BelowFloorIsObsolete ==
  /\ (WellFormedChecked /\ BelowOldStableFloor)
       => /\ response.ok
          /\ response.message
               = ObsoleteMessage(format(response.latestReleases.currentStable))
          /\ response.link = ObsoleteLink
  /\ (CompanionChecked /\ ~(CheckedParse.ok /\ BelowOldStableFloor))
       => ~ObsoleteAnswered

\* a beta build below the floor
C13_Witness ==
  /\ WellFormedChecked /\ BelowOldStableFloor
  /\ CheckedFormat.kind = Beta
  /\ response.link = ObsoleteLink

\* C14 as stated: with a snapshot, a beta build of major >= 3 in the known
\* format gets the beta message and the beta link whatever currentStable and
\* oldStable are
C14_BetaAlwaysGetsBetaMessage ==
  (WellFormedChecked /\ CheckedFormat.kind = Beta)
    => /\ response.message = BetaMessage
       /\ response.link = BetaLink

\* C14: with a snapshot, a beta build of major >= 3 in the known format that
\* is not lower than oldStable.major.oldStable.minor.0 gets the beta message
\* and the beta link, whatever currentStable is
C14_BetaAtOrAboveFloorGetsBetaMessage ==
  (WellFormedChecked /\ CheckedFormat.kind = Beta /\ ~BelowOldStableFloor)
    => /\ response.ok
       /\ response.message = BetaMessage
       /\ response.link = BetaLink

\* 3.3.0+6990-beta-1234567ab checked against a snapshot
C14_Witness ==
  /\ WellFormedChecked /\ CheckedFormat.kind = Beta
  /\ request.build \in OtherBuilds
  /\ CheckedParse.major = 3 /\ CheckedParse.minor = 3 /\ CheckedParse.patch = 0
  /\ response.message = BetaMessage

\* the version a release stands for, when its tag or name holds one
HasVersion(r) == coerce(Candidate(r)) # NULL
VersionOf(r) == SemVer(semverParse(coerce(Candidate(r))))

\* not a draft, not a prerelease, published, and older than the window:
\* published more than window before the refresh
Settled(r, dateNow, window) ==
  /\ ~r.draft
  /\ ~r.prerelease
  /\ r.published_at.value = "date"
  /\ dateNow - r.published_at.time > window
  /\ HasVersion(r)

SettledVersions(data, dateNow, window) ==
  {VersionOf(data[i]) : i \in {j \in 1..Len(data) : Settled(data[j], dateNow, window)}}

Highest(versions) == CHOOSE v \in versions : \A w \in versions : compare(v, w) >= 0

\* the snapshot is the highest of the versions, with the highest of those on
\* a lower minor branch
IsSnapshotOf(releases, versions) ==
  /\ releases.available
  /\ versions # {}
  /\ releases.currentStable = Highest(versions)
  /\ {v \in versions : LowerBranch(v, releases.currentStable)} # {}
  /\ releases.oldStable
       = Highest({v \in versions : LowerBranch(v, releases.currentStable)})

\* a refresh completes with success in this step and publishes the snapshot
\* of the releases published more than window ago
SuccessPublishes(window) ==
  \A run \in 1..MaxRefreshes, answer \in RegistryAnswers :
    (/\ CompleteRefresh(run, answer)
     /\ answer.ok
     /\ Fetched[answer, now].threw = "")
      => IsSnapshotOf(latestReleases', SettledVersions(answer.data, now, window))

\* C15 as stated: a successful refresh publishes the highest of the releases
\* that are no draft, no prerelease and were published more than one hour
\* before the refresh, with the highest of those on a lower minor branch
C15_SnapshotOfReleasesOlderThanOneHour == [][SuccessPublishes(OneHour)]_vars

\* C15: a successful refresh publishes the highest of the releases that are no
\* draft, no prerelease and were published at least one hour before the
\* refresh, with the highest of those on a lower minor branch; no version
\* that only drafts, prereleases or younger releases carry is in the snapshot
C15_SnapshotOfReleasesAtLeastOneHourOld == [][SuccessPublishes(OneHour - 1)]_vars

\* the snapshot of the answer that lists 3.2.1 published within the hour,
\* 3.2.0 published an hour ago, a draft 3.1.1, a prerelease 3.1.0 and 3.0.1
C15_Witness ==
  /\ latestReleases.available
  /\ latestReleases.currentStable = Version(3, 2, 0)
  /\ latestReleases.oldStable = Version(3, 0, 1)
  /\ fetching = {}

\* the registry call failed, or no release of the answer is usable
RefreshFails(answer, dateNow) ==
  \/ ~answer.ok
  \/ SettledVersions(answer.data, dateNow, OneHour - 1) = {}

\* a refresh that fails in this step leaves the snapshot as it was
FailureKeepsSnapshot ==
  \A run \in 1..MaxRefreshes, answer \in RegistryAnswers :
    (CompleteRefresh(run, answer) /\ RefreshFails(answer, now))
      => latestReleases' = latestReleases

\* a refresh that succeeds in this step publishes what that one fetch returned
SuccessSwapsWhole ==
  \A run \in 1..MaxRefreshes, answer \in RegistryAnswers :
    (CompleteRefresh(run, answer) /\ ~RefreshFails(answer, now)
       /\ Fetched[answer, now].threw = "")
      => latestReleases' = Fetched[answer, now].value

\* the snapshot a check read is unavailable or the result of one fetch
OneFetch(releases) ==
  \/ releases = NoReleases
  \/ \E x \in DOMAIN Fetched : Fetched[x].threw = "" /\ releases = Fetched[x].value

\* C16: a refresh that fails (the registry call fails, or no release is
\* usable) leaves the snapshot as it was; a refresh that succeeds replaces
\* currentStable and oldStable together, so every check reads the pair of one
\* fetch, or no snapshot
C16_FailedRefreshKeepsSnapshot ==
  /\ [](OneFetch(latestReleases) /\ OneFetch(response.latestReleases))
  /\ [][FailureKeepsSnapshot /\ SuccessSwapsWhole]_vars

\* the first refresh failed and the second is over: a check is answered with
\* no snapshot
C16_Witness ==
  /\ refreshes = MaxRefreshes /\ fetching = {}
  /\ ~latestReleases.available
  /\ CompanionChecked
  /\ ~response.ok

\* C22: a build that parses with major >= 3 and does not have the format
\* major.minor.patch+buildNumber-channel-hash gets ok = true (no retry), the
\* unknown-build-format message and no link, with a snapshot and without one:
\* the format is tested before the snapshot is read.
C22_UnknownFormatBeforeSnapshot ==
  (/\ CompanionChecked
   /\ CheckedParse.ok /\ CheckedParse.major >= AncientMajor
   /\ ~CheckedFormat.match)
    => /\ response.ok
       /\ response.message = UnknownFormatMessage
       /\ response.link = NoLink

\* a bare version of major 3 checked while no refresh has succeeded
C22_Witness ==
  /\ CompanionChecked
  /\ CheckedParse.ok /\ CheckedParse.major >= AncientMajor
  /\ ~CheckedFormat.match
  /\ ~response.latestReleases.available
  /\ response.message = UnknownFormatMessage

\* the first run completes in this step, after a run started later has
\* published its snapshot: the snapshot stays the one of the later run
EarlierRunDoesNotReplace ==
  \A answer \in RegistryAnswers :
    (/\ CompleteRefresh(1, answer)
     /\ refreshes >= 2
     /\ latestReleases.available)
      => latestReleases' = latestReleases

\* C33: when two refresh runs overlap, the snapshot published once both have
\* completed with success is the one of the run that started later, never the
\* one of the run that started first. (Run 1 starts before every other run:
\* a snapshot that is there while run 1 is still fetching was published by a
\* run that started after it.)
C33_LaterStartedRefreshWins == [][EarlierRunDoesNotReplace]_vars

\* a refresh completes in this step with an answer that holds a usable
\* release: it publishes the snapshot whose current stable version is the
\* highest of the usable releases
UsableReleasePublishes ==
  \A run \in 1..MaxRefreshes, answer \in RegistryAnswers :
    (/\ CompleteRefresh(run, answer)
     /\ answer.ok
     /\ SettledVersions(answer.data, now, OneHour - 1) # {})
      => /\ latestReleases'.available
         /\ latestReleases'.currentStable
              = Highest(SettledVersions(answer.data, now, OneHour - 1))

\* C35: a refresh whose registry answer holds at least one usable release
\* succeeds and publishes a snapshot, also when all usable releases are of one
\* (major, minor) branch; a refresh fails only when there is no usable release
\* or the registry call fails.
C35_OneUsableReleaseIsEnough == [][UsableReleasePublishes]_vars

\* the same for answers whose usable releases are of two branches or more
TwoBranchesPublish ==
  \A run \in 1..MaxRefreshes, answer \in RegistryAnswers :
    (/\ CompleteRefresh(run, answer)
     /\ answer.ok
     /\ \E v, w \in SettledVersions(answer.data, now, OneHour - 1) :
          v.major # w.major \/ v.minor # w.minor)
      => /\ latestReleases'.available
         /\ latestReleases'.currentStable
              = Highest(SettledVersions(answer.data, now, OneHour - 1))

C35_TwoBranchesPublish == [][TwoBranchesPublish]_vars

\* a snapshot that is there stays there in this step, whatever refresh
\* completes, and a check answered in this step is not told to retry
SnapshotStays ==
  latestReleases.available =>
    /\ latestReleases'.available
    /\ response' = response \/ response'.ok

\* C34: once a refresh has succeeded the snapshot is never unavailable again,
\* whatever refreshes succeed or fail afterwards, and no version check is
\* answered with ok = false (retry) from then on.
C34_SnapshotNeverUnavailableAgain == [][SnapshotStays]_vars

\* every refresh is over, the snapshot is there and a well-formed Companion
\* build was checked against it
C34_Witness ==
  /\ refreshes = MaxRefreshes /\ fetching = {}
  /\ latestReleases.available
  /\ CompanionChecked /\ CheckedParse.ok /\ CheckedFormat.match
  /\ response.latestReleases = latestReleases
  /\ response.ok

-----------------------------------------------------------------------------
(* Claims about submissions whose store calls fail (SpecFaults) *)

\* writeSurfacesUsage has returned for the request's non-empty surface list
SurfacesReturned(p) ==
  /\ pre[p].seq >= 1 /\ ~NothingToDo(req[p].surfaces)
  /\ pc[p].daily = "done" /\ pc[p].lastSeen = "done"

\* return usageOk && lastSeenOk
SurfacesOk(p) == daily[p].ok /\ lastSeen[p].ok

\* the last-seen rows of the request's subject under a legacy hash form of a
\* serial of the request
LegacyRows(p) ==
  {k \in DOMAIN surfaceUserLastSeen :
     k[1] = req[p].id /\ k[3] \in OldSerialsToPrune(req[p].surfaces.items)}

\* C17: after writeSurfaces returned success for a submission, the store holds
\* no last-seen row of the subject whose serial is hash(s), hash(the part of s
\* after its first ':') or hash('satellite-' + that part) for a raw serial s of
\* the submission.
C17_NoLegacyRowAfterSuccess ==
  (SurfacesReturned(1) /\ SurfacesOk(1)) => LegacyRows(1) = {}

\* the handler has returned
Returned(p) == Done(p) /\ pre[p].seq >= 1

\* a sub-operation of the request failed: the features write, a daily-bucket
\* merge, a last-seen upsert, the pruning of the legacy rows, an initial read,
\* the creation of an identity, a count merge, or a transaction
SomethingFailed(p) ==
  \/ features[p].failed
  \/ daily[p].failed # {} \/ ~daily[p].committed
  \/ lastSeen[p].failed # {} \/ lastSeen[p].pruneFailed \/ ~lastSeen[p].committed
  \/ conn[p].failed # {} \/ conn[p].rejected

\* C18: the accepted flag that the handler (modern or legacy) returns is the
\* conjunction of the outcomes of all sub-operations of the submission, the
\* pruning of the legacy rows and the features write included: it is false
\* whenever one of them failed, in whatever order the branches complete.
C18_AcceptedIsAndOfAllOutcomes ==
  Returned(1) => (Accepted(1) <=> ~SomethingFailed(1))

\* the merge of a record of the request failed at the store
RecordFailed(p) ==
  \/ daily[p].failed # {}
  \/ lastSeen[p].failed # {}
  \/ conn[p].failed # {}

\* the daily and the all-time row of the identity (moduleName, version) of a
\* user in the given tables
IdentityRows(tables, utcDay, user, moduleName, version) ==
  IF <<moduleName, version>> \in DOMAIN tables.knownModule
  THEN LET id == tables.knownModule[<<moduleName, version>>]
       IN <<RowOf(tables.moduleDailyUsage, <<utcDay, user, id>>),
            RowOf(tables.moduleUserLastSeen, <<user, id>>)>>
  ELSE <<>>

\* every record of the request whose merge did not fail has the rows that the
\* submission leaves when no store call fails
OthersMerged(p) ==
  LET r == req[p]
      stored == [surfaceDailyUsage |-> surfaceDailyUsage,
                 surfaceUserLastSeen |-> surfaceUserLastSeen,
                 knownModule |-> knownModule,
                 moduleDailyUsage |-> moduleDailyUsage,
                 moduleUserLastSeen |-> moduleUserLastSeen]
      unfailed == Once(pre[p], r, conn[p].now)
  IN /\ \A m \in 1..Len(daily[p].moduleCounts) :
          (daily[p].committed /\ m \notin daily[p].failed) =>
            LET key == <<daily[p].utcDay, r.id,
                         slice(daily[p].moduleCounts[m][1], 0, ModuleNameMax)>>
            IN /\ key \in DOMAIN surfaceDailyUsage
               /\ RowOf(surfaceDailyUsage, key) = RowOf(unfailed.surfaceDailyUsage, key)
     /\ \A i \in 1..Len(r.surfaces.items) :
          (lastSeen[p].committed /\ i \notin lastSeen[p].failed) =>
            LET key == <<r.id, slice(r.surfaces.items[i].moduleId, 0, ModuleNameMax),
                         slice(r.surfaces.items[i].id, 0, SerialMax)>>
            IN RowOf(surfaceUserLastSeen, key) = RowOf(unfailed.surfaceUserLastSeen, key)
     /\ \A i \in 1..Len(r.connections.items) :
          (~conn[p].rejected /\ <<i, 0>> \notin conn[p].failed) =>
            LET c == r.connections.items[i]
                moduleName == slice(c.moduleId, 0, ConnModuleNameMax)
                Same(version) ==
                  /\ <<moduleName, version>> \in DOMAIN knownModule
                  /\ IdentityRows(stored, conn[p].utcDay, r.id, moduleName, version)
                       = IdentityRows(unfailed, conn[p].utcDay, r.id, moduleName, version)
            IN /\ <<i, -1>> \notin conn[p].failed => Same(<<>>)
               /\ \A j \in 1..Len(c.counts) :
                    <<i, j>> \notin conn[p].failed =>
                      Same(slice(c.counts[j].ver, 0, VersionMax))

C19_WitnessSurface ==
  /\ Returned(1) /\ lastSeen[1].failed = {2} /\ lastSeen[1].committed
  /\ Len(req[1].surfaces.items) = 3
  /\ Cardinality(DOMAIN surfaceUserLastSeen) = 2
  /\ ~Accepted(1)

\* the daily merge of one surface module of two failed
C19_WitnessModule ==
  /\ Returned(1) /\ Cardinality(daily[1].failed) = 1 /\ daily[1].committed
  /\ Len(daily[1].moduleCounts) = 2
  /\ Cardinality(DOMAIN surfaceDailyUsage) = 1
  /\ ~Accepted(1)

\* C20: every usage submission ends with a structured outcome: whatever store
\* operation fails or times out (an initial read, an identity upsert, a count
\* upsert, a delete, the opening or the commit of a transaction), no exception
\* leaves the handler and the outcome is accepted = false.
C20_StoreFailureYieldsNotAccepted ==
  (Returned(1) /\ SomethingFailed(1)) => ~Accepted(1)

\* the rows that the subject of the request had, before it, under a legacy
\* hash form of the serial of its i-th surface and of no surface whose upsert
\* succeeded
LegacyRowsBefore(p, i) ==
  LET surfaces == req[p].surfaces.items
  IN {k \in DOMAIN pre[p].surfaceUserLastSeen :
        /\ k[1] = req[p].id
        /\ k[3] \in OldSerials(surfaces[i].id)
        /\ k[3] \notin OldSerialsToPrune(Surviving(surfaces, lastSeen[p].failed, 1))}

\* C24: writeSurfaces deletes the legacy-hashed last-seen rows of a surface
\* only after the plain row of that surface was written in the same
\* submission: when the upsert of the plain row fails, the legacy-hashed rows
\* of the surface stay in the store.
C24_LegacyRowsKeptWhenUpsertFails ==
  SurfacesReturned(1) =>
    \A i \in lastSeen[1].failed :
      LegacyRowsBefore(1, i) \subseteq DOMAIN surfaceUserLastSeen

\* the records of the request whose transaction was aborted
Aborted(p) == {i \in 1..Len(req[p].connections.items) : <<i, -2>> \in conn[p].failed}

\* the rows of every identity of the k-th connection record, in the given
\* tables
RecordRows(tables, p, k) ==
  LET c == req[p].connections.items[k]
      moduleName == slice(c.moduleId, 0, ConnModuleNameMax)
  IN <<IdentityRows(tables, conn[p].utcDay, req[p].id, moduleName, <<>>),
       [j \in 1..Len(c.counts) |->
          IdentityRows(tables, conn[p].utcDay, req[p].id, moduleName,
                       slice(c.counts[j].ver, 0, VersionMax))]>>

\* C29: when the transaction of one connection module runs into its timeout
\* and is aborted, the count merges of the transactions committed before it in
\* the same submission stay in the store, the transactions of the modules
\* after it are still run (every merge of theirs that did not fail itself
\* leaves the rows of the submission in which nothing fails), and the
\* submission answers accepted = false.
C29_AbortedBatchLeavesOthers ==
  (Returned(1) /\ Aborted(1) # {}) =>
    LET stored == [knownModule |-> knownModule,
                   moduleDailyUsage |-> moduleDailyUsage,
                   moduleUserLastSeen |-> moduleUserLastSeen]
        unfailed == Once(pre[1], req[1], conn[1].now)
        Same(k, version) ==
          LET moduleName == slice(req[1].connections.items[k].moduleId, 0,
                                  ConnModuleNameMax)
          IN IdentityRows(stored, conn[1].utcDay, req[1].id, moduleName, version)
               = IdentityRows(unfailed, conn[1].utcDay, req[1].id, moduleName, version)
    IN /\ \A k \in 1..Len(req[1].connections.items) :
            <<k, 0>> \notin conn[1].failed =>
              /\ <<k, -1>> \notin conn[1].failed => Same(k, <<>>)
              /\ \A j \in 1..Len(req[1].connections.items[k].counts) :
                   <<k, j>> \notin conn[1].failed =>
                     Same(k, slice(req[1].connections.items[k].counts[j].ver, 0,
                                   VersionMax))
       /\ ~conn[1].ok
       /\ ~Accepted(1)

\* the transaction of the first of two connection modules was aborted, the
\* second one is merged
C29_Witness ==
  /\ Returned(1) /\ Aborted(1) = {1}
  /\ Len(req[1].connections.items) = 2
  /\ RecordRows([knownModule |-> knownModule,
                 moduleDailyUsage |-> moduleDailyUsage,
                 moduleUserLastSeen |-> moduleUserLastSeen], 1, 2)
       # RecordRows(pre[1], 1, 2)
  /\ moduleDailyUsage # pre[1].moduleDailyUsage
  /\ ~Accepted(1)

\* the transaction of the second module was aborted, the first one stays merged
C29_WitnessEarlier ==
  /\ Returned(1) /\ Aborted(1) = {2}
  /\ moduleDailyUsage # pre[1].moduleDailyUsage
  /\ ~Accepted(1)

\* a store call of the surfaces branch (writeSurfacesUsage) failed
SurfacesFailed(p) ==
  \/ daily[p].failed # {} \/ ~daily[p].committed
  \/ lastSeen[p].failed # {} \/ lastSeen[p].pruneFailed \/ ~lastSeen[p].committed

\* a store call of the connections branch (writeConnectionsUsage) failed
ConnectionsFailed(p) == conn[p].failed # {} \/ conn[p].rejected

\* C30: a failure of the surfaces branch of a submission (a false result or a
\* rejection) neither prevents nor undoes the merges of its connections
\* branch, and a failure of the connections branch neither prevents nor
\* undoes the merges of its surfaces branch: the tables of the branch that did
\* not fail are those of the submission in which nothing fails.
C30_BranchesDoNotAffectEachOther ==
  Returned(1) =>
    LET unfailed == Once(pre[1], req[1], conn[1].now)
    IN /\ (SurfacesFailed(1) /\ ~ConnectionsFailed(1)) =>
            /\ knownModule = unfailed.knownModule
            /\ moduleDailyUsage = unfailed.moduleDailyUsage
            /\ moduleUserLastSeen = unfailed.moduleUserLastSeen
            /\ conn[1].ok
       /\ (ConnectionsFailed(1) /\ ~SurfacesFailed(1)) =>
            /\ surfaceDailyUsage = unfailed.surfaceDailyUsage
            /\ surfaceUserLastSeen = unfailed.surfaceUserLastSeen
            /\ daily[1].ok /\ lastSeen[1].ok

\* the surfaces branch failed and the connections of the same report were
\* merged
C30_Witness ==
  /\ Returned(1) /\ SurfacesFailed(1) /\ ~ConnectionsFailed(1)
  /\ Len(req[1].surfaces.items) > 0 /\ Len(req[1].connections.items) > 0
  /\ surfaceDailyUsage = pre[1].surfaceDailyUsage
  /\ moduleDailyUsage # pre[1].moduleDailyUsage
  /\ ~Accepted(1)

\* the connections branch failed and the surfaces of the same report were
\* merged
C30_WitnessConnections ==
  /\ Returned(1) /\ ConnectionsFailed(1) /\ ~SurfacesFailed(1)
  /\ Len(req[1].surfaces.items) > 0 /\ Len(req[1].connections.items) > 0
  /\ moduleDailyUsage = pre[1].moduleDailyUsage
  /\ surfaceDailyUsage # pre[1].surfaceDailyUsage
  /\ surfaceUserLastSeen # pre[1].surfaceUserLastSeen
  /\ ~Accepted(1)

-----------------------------------------------------------------------------
(* Claims about the old metrics route (SpecLegacy) *)

\* the values of the entries that convert, in their order
RECURSIVE Convertible(_)
Convertible(outcomes) ==
  IF outcomes = <<>> THEN <<>>
  ELSE Head(outcomes).value \o Convertible(Tail(outcomes))

\* the request came through the old metrics route with an identifier
OldMetricsConverted(p) == "body" \in DOMAIN req[p] /\ ~NoIdentifier(req[p].body.i)

\* C21: in the old metrics route, when the conversion of one entry of a
\* surfaces or connections section fails, only that entry is skipped: every
\* other entry of the section, before and after it, is converted and passed to
\* the writers.
C21_FailedEntryAloneIsSkipped ==
  OldMetricsConverted(1) =>
    /\ req[1].surfaces.items = Convertible(SurfaceOutcomes(req[1].body))
    /\ req[1].connections.items = Convertible(ConnectionOutcomes(req[1].body))

\* the entries before the one whose conversion failed are passed to the
\* writers
C21_EntriesBeforeAreConverted ==
  OldMetricsConverted(1) =>
    /\ \A k \in 1..Len(req[1].surfaces.items) :
         req[1].surfaces.items[k] = Convertible(SurfaceOutcomes(req[1].body))[k]
    /\ \A k \in 1..Len(req[1].connections.items) :
         req[1].connections.items[k] = Convertible(ConnectionOutcomes(req[1].body))[k]

\* the request came through the old metrics route without an identifier
OldMetricsRefused(p) == "body" \in DOMAIN req[p] /\ NoIdentifier(req[p].body.i)

\* C31: a report of the old metrics route whose identifier is missing, empty
\* or no string is answered with accepted = false, and the handler makes no
\* store call for it: no read, and no table is changed.
C31_NoIdentifierNoStoreCall ==
  OldMetricsRefused(1) =>
    /\ Done(1)
    /\ ~Accepted(1)
    /\ dbCalls[1] = NoCalls
    /\ surfaceDailyUsage = pre[1].surfaceDailyUsage
    /\ surfaceUserLastSeen = pre[1].surfaceUserLastSeen
    /\ knownModule = pre[1].knownModule
    /\ moduleDailyUsage = pre[1].moduleDailyUsage
    /\ moduleUserLastSeen = pre[1].moduleUserLastSeen

\* a body with surfaces and connections and a number as identifier was refused
C31_Witness ==
  /\ OldMetricsRefused(1) /\ req[1].body.i = NotAString
  /\ req[1].body.s.defined /\ req[1].body.mv.defined
  /\ Len(req[1].body.s.items) > 0 /\ Len(req[1].body.mv.items) > 0
  /\ ~Accepted(1)

\* the same with an empty identifier, after a report that was stored
C31_WitnessEmpty ==
  /\ OldMetricsRefused(1) /\ req[1].body.i = ""
  /\ pre[1].seq > 1 /\ pre[1].moduleDailyUsage # EmptyTable
  /\ ~Accepted(1)

-----------------------------------------------------------------------------
(* Claims about counts below zero (SpecCounts, SpecLegacy) *)

\* every stored daily and all-time count is zero or more
StoredCountsNonNegative ==
  /\ \A k \in DOMAIN surfaceDailyUsage : surfaceDailyUsage[k] >= 0
  /\ \A k \in DOMAIN moduleDailyUsage : moduleDailyUsage[k] >= 0
  /\ \A k \in DOMAIN moduleUserLastSeen : moduleUserLastSeen[k].max_count >= 0

\* the connections passed on by the old metrics route carry no count below
\* zero
LegacyCountsNonNegative ==
  OldMetricsConverted(1) =>
    \A k \in 1..Len(req[1].connections.items) :
      \A j \in 1..Len(req[1].connections.items[k].counts) :
        req[1].connections.items[k].counts[j].cnt >= 0

\* the request in progress carries a count below zero
HasNegativeCount(p) ==
  \E k \in 1..Len(req[p].connections.items) :
    \E j \in 1..Len(req[p].connections.items[k].counts) :
      req[p].connections.items[k].counts[j].cnt < 0

\* no step of a request that carries a count below zero lowers a stored daily
\* or all-time count of a connection identity
NegativeCountLowersNothing ==
  HasNegativeCount(1) =>
    /\ \A k \in DOMAIN moduleDailyUsage :
         k \in DOMAIN moduleDailyUsage' /\ moduleDailyUsage'[k] >= moduleDailyUsage[k]
    /\ \A k \in DOMAIN moduleUserLastSeen :
         /\ k \in DOMAIN moduleUserLastSeen'
         /\ moduleUserLastSeen'[k].max_count >= moduleUserLastSeen[k].max_count

\* C32: every stored daily and all-time count is zero or more in every
\* reachable state, the old metrics route passes on no count that is below
\* zero, and a count below zero that arrives through the detailed usage route
\* neither makes a stored count negative nor lowers a stored count.
C32_CountsNeverNegativeNorLowered ==
  /\ [](StoredCountsNonNegative /\ LegacyCountsNonNegative)
  /\ [][NegativeCountLowersNothing]_vars

\* a submission with a count below zero ends with every count of its
\* identities at or above the count stored before it
C32_NotBelowPrevious ==
  (Done(1) /\ pre[1].seq >= 1) =>
    /\ \A k \in DOMAIN pre[1].moduleDailyUsage :
         k \in DOMAIN moduleDailyUsage
         /\ moduleDailyUsage[k] >= pre[1].moduleDailyUsage[k]
    /\ \A k \in DOMAIN pre[1].moduleUserLastSeen :
         k \in DOMAIN moduleUserLastSeen
         /\ moduleUserLastSeen[k].max_count >= pre[1].moduleUserLastSeen[k].max_count

-----------------------------------------------------------------------------
(* Claims about two subjects (SpecSubjects) *)

Restrict(table, keys) == [k \in DOMAIN table \cap keys |-> table[k]]

\* the daily buckets, all-time counts and last-seen rows of subject u
RowsOf(u) ==
  [surfaceDailyUsage |->
     Restrict(surfaceDailyUsage, {k \in DOMAIN surfaceDailyUsage : k[2] = u}),
   surfaceUserLastSeen |->
     Restrict(surfaceUserLastSeen, {k \in DOMAIN surfaceUserLastSeen : k[1] = u}),
   moduleDailyUsage |->
     Restrict(moduleDailyUsage, {k \in DOMAIN moduleDailyUsage : k[2] = u}),
   moduleUserLastSeen |->
     Restrict(moduleUserLastSeen, {k \in DOMAIN moduleUserLastSeen : k[1] = u})]

\* the step is not one of request q
Unmoved(q) ==
  /\ pc'[q] = pc[q] /\ req'[q] = req[q] /\ daily'[q] = daily[q]
  /\ lastSeen'[q] = lastSeen[q] /\ conn'[q] = conn[q] /\ dbCalls'[q] = dbCalls[q]

OtherSubjectUntouched ==
  \A q \in Procs : Unmoved(q) => RowsOf(SubjectOf(q))' = RowsOf(SubjectOf(q))

\* C40: a step of a submission of one subject creates, changes and deletes
\* no daily bucket, no all-time count and no last-seen row of the other
\* subject, the pruning of legacy rows included, whatever the order of the
\* steps of two requests in progress at the same time.
C40_OtherSubjectUntouched == [][OtherSubjectUntouched]_vars

\* the first subject's last-seen transaction has pruned a serial under which
\* the second subject has a row, while the second's request is in progress
C40_Witness ==
  /\ pc[1].lastSeen = "done" /\ ~NothingToDo(req[1].surfaces)
  /\ ~Done(2) /\ ~Idle(2)
  /\ \E k \in DOMAIN surfaceUserLastSeen :
       k[1] = SubjectOf(2) /\ k[3] \in OldSerialsToPrune(req[1].surfaces.items)

\* both subjects have rows in all four tables
C40_WitnessBothStored ==
  \A u \in {SubjectOf(1), SubjectOf(2)} :
    /\ RowsOf(u).surfaceDailyUsage # EmptyTable
    /\ RowsOf(u).surfaceUserLastSeen # EmptyTable
    /\ RowsOf(u).moduleDailyUsage # EmptyTable
    /\ RowsOf(u).moduleUserLastSeen # EmptyTable

====
